---- MODULE Spec2Model ----
(***************************************************************************)
(* State-machine model of the W3PI index-fund contracts.                   *)
(*                                                                         *)
(* Registry  (contracts/registry/src/lib.rs): token catalogue, tier        *)
(*           classification with grace period, tier-distribution cache,    *)
(*           80% rule for the active tier.                                 *)
(* Portfolio (contracts/portfolio/src/lib.rs): holdings with target        *)
(*           weights, index value against a baseline.                      *)
(* Staking   (contracts/staking/src/lib.rs): stakes with compounding       *)
(*           rewards, performance fee, queue of unstaking requests.        *)
(*                                                                         *)
(* Encodings.  Option::None is Nil for tiers and NoTime for timestamps.    *)
(* Tier::None is the string "None".  Times are counted in hours (the       *)
(* smallest grace period the contract accepts), USD thresholds in millions *)
(* of USD, the USD->planck rate in 10^9 plancks per USD, and market caps   *)
(* and volumes in 10^15 plancks, so that threshold * rate is in the unit   *)
(* of the market data.                                                     *)
(***************************************************************************)
EXTENDS Integers, Sequences, FiniteSets

VARIABLES
    \* ---- Registry storage (registry/src/lib.rs:105-132) ----
    tokens,                \* Mapping<u32, EnhancedTokenData>
    token_contract_to_id,  \* Mapping<AccountId, u32>
    role_members,          \* set of <<role, account>> mapped to true
    next_token_id,         \* u32
    active_tier,           \* Tier
    tier_distribution,     \* Mapping<Tier, u32>
    last_tier_change,      \* Option<u64>
    grace_period_ms,       \* u64
    \* ---- Portfolio storage (portfolio/src/lib.rs:101-173) ----
    state,                 \* PortfolioState
    holdings,              \* Mapping<u32, TokenHolding>
    held_token_ids,        \* Vec<u32>
    total_tokens_held,     \* u32
    base_portfolio_value,  \* u128
    current_index_value,   \* u128
    last_index_update,     \* u64
    index_tracking_enabled,\* bool
    registry_contract,     \* Option<AccountId>
    max_tokens,            \* u32
    emergency_paused,      \* bool
    \* ---- Staking storage (staking/src/lib.rs:110-132) ----
    w3pi_token,            \* AccountId
    registry,              \* AccountId
    paused,                \* bool
    stakes,                \* Mapping<AccountId, StakeInfo>
    total_staked,          \* u128
    unstaking_requests,    \* Mapping<AccountId, Vec<UnstakingRequest>>
    reentrancy_guard,      \* ReentrancyGuard: TRUE while a message runs
    fee_wallet,            \* AccountId
    total_collected_fees,  \* u128
    \* ---- DEX storage (dex/src/lib.rs:35-42) ----
    pools,                 \* Mapping<(AccountId, AccountId), Pool>
    pool_keys,             \* Vec<(AccountId, AccountId)>
    dex_reentrancy_guard,  \* ReentrancyGuard of the DEX
    \* ---- Oracle storage (oracle/src/lib.rs:54-65) ----
    oracle_token_data,     \* Mapping<AccountId, TokenPriceData>, the Oracle's token_data
    authorized_updaters,   \* set of the accounts mapped to true
    validation_config,     \* ValidationConfig
    oracle_paused,         \* bool, the Oracle's paused
    \* ---- environment ----
    now                    \* block timestamp

regVars == <<tokens, token_contract_to_id, role_members, next_token_id,
             active_tier, tier_distribution, last_tier_change, grace_period_ms>>

portVars == <<state, holdings, held_token_ids, total_tokens_held,
              base_portfolio_value, current_index_value, last_index_update,
              index_tracking_enabled, registry_contract, max_tokens,
              emergency_paused>>

stakingVars == <<w3pi_token, registry, paused, stakes, total_staked,
                 unstaking_requests, reentrancy_guard, fee_wallet,
                 total_collected_fees>>

dexVars == <<pools, pool_keys, dex_reentrancy_guard>>

oracleVars == <<oracle_token_data, authorized_updaters, validation_config, oracle_paused>>

vars == <<tokens, token_contract_to_id, role_members, next_token_id,
          active_tier, tier_distribution, last_tier_change, grace_period_ms,
          state, holdings, held_token_ids, total_tokens_held,
          base_portfolio_value, current_index_value, last_index_update,
          index_tracking_enabled, registry_contract, max_tokens,
          emergency_paused,
          w3pi_token, registry, paused, stakes, total_staked,
          unstaking_requests, reentrancy_guard, fee_wallet,
          total_collected_fees,
          pools, pool_keys, dex_reentrancy_guard,
          oracle_token_data, authorized_updaters, validation_config, oracle_paused,
          now>>

(***************************************************************************)
(* Bounds of the exploration.                                              *)
(***************************************************************************)
MaxTokens == 2       \* ids handed out in Spec
MaxTime == 1         \* last block time in Spec
WideMaxTokens == 5   \* ids handed out in WideSpec
WideMaxTime == 1     \* last block time in WideSpec
MaxHeldTokens == 2   \* token ids the Portfolio is offered in PortfolioSpec
MaxHeldIds == 3      \* longest held_token_ids in PortfolioSpec
StakingMaxTime == 6  \* last block time in StakingSpec
MaxRequests == 2     \* longest queue of unstaking requests in StakingSpec
MaxStaked == 200     \* largest total_staked a stake may bring about in StakingSpec
MaxPoolKeys == 2     \* longest pool_keys in DexSpec
MaxReserveIn == 1300 \* largest input reserve a swap may bring about in DexSpec
OracleMaxTime == 3720001 \* last block time, in milliseconds, in OracleSpec

(***************************************************************************)
(* Types and constants of the Registry.                                    *)
(***************************************************************************)
Nil == "Nil"
NoTime == -1

TierList == <<"None", "Tier1", "Tier2", "Tier3", "Tier4">>
Tier == {TierList[i] : i \in 1..Len(TierList)}

Owner == "owner"
ZeroAddress == "zero"

DEFAULT_GRACE_PERIOD_MS == 90 * 24
MIN_GRACE_PERIOD_MS == 1
MAX_GRACE_PERIOD_MS == 365 * 24
MIN_TOKENS_FOR_TIER_SHIFT == 5
TIER_SHIFT_THRESHOLD_PERCENT == 80
MAX_WEIGHT_BP == 10000

tier1_market_cap_usd == 50
tier1_volume_usd == 5
tier2_market_cap_usd == 250
tier2_volume_usd == 25
tier3_market_cap_usd == 500
tier3_volume_usd == 50
tier4_market_cap_usd == 2000
tier4_volume_usd == 200
FALLBACK_USD_TO_PLANCKS_RATE == 2
ONE_DOT_IN_PLANCKS == 10
U128_MAX == 2147483647

TierThresholds(c1, v1, c2, v2, c3, v3, c4, v4) ==
    [tier1_market_cap_usd |-> c1, tier1_volume_usd |-> v1,
     tier2_market_cap_usd |-> c2, tier2_volume_usd |-> v2,
     tier3_market_cap_usd |-> c3, tier3_volume_usd |-> v3,
     tier4_market_cap_usd |-> c4, tier4_volume_usd |-> v4]

TierThresholds_default ==
    TierThresholds(tier1_market_cap_usd, tier1_volume_usd,
                   tier2_market_cap_usd, tier2_volume_usd,
                   tier3_market_cap_usd, tier3_volume_usd,
                   tier4_market_cap_usd, tier4_volume_usd)

(***************************************************************************)
(* The Registry as a value.  A message is an operator from the storage     *)
(* (self), the caller, the block timestamp and the arguments to the        *)
(* storage it leaves, its Result (res: "Ok" or the Error) and the value it *)
(* returns (ret).                                                          *)
(***************************************************************************)
Registry ==
    [tokens               |-> tokens,
     token_contract_to_id |-> token_contract_to_id,
     role_members         |-> role_members,
     next_token_id        |-> next_token_id,
     active_tier          |-> active_tier,
     tier_distribution    |-> tier_distribution,
     last_tier_change     |-> last_tier_change,
     grace_period_ms      |-> grace_period_ms]

Ok(self, ret) == [self |-> self, res |-> "Ok", ret |-> ret]

\* an error returned before anything is written
Err(self, error) == [self |-> self, res |-> error, ret |-> 0]

(***************************************************************************)
(* Helpers of the Registry.                                                *)
(***************************************************************************)
saturating_sub(a, b) == IF a >= b THEN a - b ELSE 0

has_role(self, role, account) == <<role, account>> \in self.role_members

ensure_owner(caller) == caller = Owner

ensure_role(self, role, caller) == caller = Owner \/ has_role(self, role, caller)

\* dot_usd_oracle is None after construction, so the rate lookup yields None
\* u128::saturating_mul of a threshold and the rate
saturating_mul_rate(threshold, rate) ==
    IF rate # 0 /\ threshold > U128_MAX \div rate THEN U128_MAX ELSE threshold * rate

\* dot_price is what the DOT/USD oracle answered to get_price: <<>> when no
\* oracle is set, the call failed or the answer was None, <<p>> for Some(p).
\* The rate is <<>> for None and <<r>> for Some(r).
get_usd_to_plancks_rate(dot_price) ==
    IF dot_price = <<>> THEN <<>>
    ELSE IF dot_price[1] > 0 THEN <<ONE_DOT_IN_PLANCKS \div dot_price[1]>>
    ELSE <<>>

\* a plausible slip: a threshold has to be exceeded, not met
calculate_tier_from_values_exceeding(thresholds, dot_price, market_cap, volume) ==
    LET rate == IF get_usd_to_plancks_rate(dot_price) = <<>>
                THEN FALLBACK_USD_TO_PLANCKS_RATE
                ELSE get_usd_to_plancks_rate(dot_price)[1]
        meets(cap_usd, volume_usd) ==
            /\ market_cap > saturating_mul_rate(cap_usd, rate)
            /\ volume > saturating_mul_rate(volume_usd, rate)
    IN  IF meets(thresholds.tier4_market_cap_usd, thresholds.tier4_volume_usd) THEN "Tier4"
        ELSE IF meets(thresholds.tier3_market_cap_usd, thresholds.tier3_volume_usd) THEN "Tier3"
        ELSE IF meets(thresholds.tier2_market_cap_usd, thresholds.tier2_volume_usd) THEN "Tier2"
        ELSE IF meets(thresholds.tier1_market_cap_usd, thresholds.tier1_volume_usd) THEN "Tier1"
        ELSE "None"

calculate_tier_from_values(thresholds, dot_price, market_cap, volume) ==
    LET rate == IF get_usd_to_plancks_rate(dot_price) = <<>>
                THEN FALLBACK_USD_TO_PLANCKS_RATE
                ELSE get_usd_to_plancks_rate(dot_price)[1]
        tier4_market_cap_plancks == saturating_mul_rate(thresholds.tier4_market_cap_usd, rate)
        tier4_volume_plancks == saturating_mul_rate(thresholds.tier4_volume_usd, rate)
        tier3_market_cap_plancks == saturating_mul_rate(thresholds.tier3_market_cap_usd, rate)
        tier3_volume_plancks == saturating_mul_rate(thresholds.tier3_volume_usd, rate)
        tier2_market_cap_plancks == saturating_mul_rate(thresholds.tier2_market_cap_usd, rate)
        tier2_volume_plancks == saturating_mul_rate(thresholds.tier2_volume_usd, rate)
        tier1_market_cap_plancks == saturating_mul_rate(thresholds.tier1_market_cap_usd, rate)
        tier1_volume_plancks == saturating_mul_rate(thresholds.tier1_volume_usd, rate)
    IN  IF market_cap >= tier4_market_cap_plancks /\ volume >= tier4_volume_plancks
        THEN "Tier4"
        ELSE IF market_cap >= tier3_market_cap_plancks /\ volume >= tier3_volume_plancks
        THEN "Tier3"
        ELSE IF market_cap >= tier2_market_cap_plancks /\ volume >= tier2_volume_plancks
        THEN "Tier2"
        ELSE IF market_cap >= tier1_market_cap_plancks /\ volume >= tier1_volume_plancks
        THEN "Tier1"
        ELSE "None"

\* dot_usd_oracle is None after construction (set_dot_usd_oracle is not
\* among the messages explored), so the rate read fails
dot_usd_oracle == <<>>

\* tier_thresholds is TierThresholds::default() after construction
tier_thresholds == TierThresholds_default

\* the thresholds the Registry holds after set_tier_thresholds(thresholds)
set_tier_thresholds(caller, thresholds) ==
    IF ~ensure_owner(caller)
    THEN [res |-> "Unauthorized", tier_thresholds |-> tier_thresholds]
    ELSE IF \/ thresholds.tier1_market_cap_usd >= thresholds.tier2_market_cap_usd
            \/ thresholds.tier2_market_cap_usd >= thresholds.tier3_market_cap_usd
            \/ thresholds.tier3_market_cap_usd >= thresholds.tier4_market_cap_usd
    THEN [res |-> "InvalidParameter", tier_thresholds |-> tier_thresholds]
    ELSE IF \/ thresholds.tier1_volume_usd >= thresholds.tier2_volume_usd
            \/ thresholds.tier2_volume_usd >= thresholds.tier3_volume_usd
            \/ thresholds.tier3_volume_usd >= thresholds.tier4_volume_usd
    THEN [res |-> "InvalidParameter", tier_thresholds |-> tier_thresholds]
    ELSE [res |-> "Ok", tier_thresholds |-> thresholds]

\* md is what get_market_data_from_oracle returned: ok is FALSE for None
calculate_token_tier_internal(md) ==
    IF ~md.ok THEN Nil ELSE calculate_tier_from_values(tier_thresholds, dot_usd_oracle, md.cap, md.vol)

get_token_count(self) == saturating_sub(self.next_token_id, 1)

increment_tier_count(self, tier) ==
    [self EXCEPT !.tier_distribution[tier] = @ + 1]

\* a plausible slip: the old tier's count is left as it was
decrement_tier_count_skipped(self, tier) == self

decrement_tier_count(self, tier) ==
    IF self.tier_distribution[tier] > 0
    THEN [self EXCEPT !.tier_distribution[tier] = @ - 1]
    ELSE self

get_higher_tiers(self) ==
    CASE self.active_tier = "None"  -> <<"Tier1", "Tier2", "Tier3", "Tier4">>
      [] self.active_tier = "Tier1" -> <<"Tier2", "Tier3", "Tier4">>
      [] self.active_tier = "Tier2" -> <<"Tier3", "Tier4">>
      [] self.active_tier = "Tier3" -> <<"Tier4">>
      [] self.active_tier = "Tier4" -> <<>>

\* count.checked_mul(100) of a u32 is None when count > u32::MAX / 100
checked_mul_100_is_some(count) == count <= 42949672

\* a plausible slip: more than 80% instead of at least 80%
tier_qualifies_strictly(count, total_tokens) ==
    /\ checked_mul_100_is_some(count)
    /\ total_tokens # 0
    /\ (count * 100) \div total_tokens > TIER_SHIFT_THRESHOLD_PERCENT

tier_qualifies(count, total_tokens) ==
    /\ checked_mul_100_is_some(count)
    /\ total_tokens # 0
    /\ (count * 100) \div total_tokens >= TIER_SHIFT_THRESHOLD_PERCENT

\* the for loop of should_shift_tier over the tiers still to check
RECURSIVE first_qualifying(_, _, _)
first_qualifying(self, check_tiers, total_tokens) ==
    IF check_tiers = <<>> THEN Nil
    ELSE IF tier_qualifies(self.tier_distribution[Head(check_tiers)], total_tokens)
    THEN Head(check_tiers)
    ELSE first_qualifying(self, Tail(check_tiers), total_tokens)

should_shift_tier(self) ==
    LET total_tokens == get_token_count(self)
    IN  IF total_tokens < MIN_TOKENS_FOR_TIER_SHIFT THEN Nil
        ELSE first_qualifying(self, get_higher_tiers(self), total_tokens)

shift_active_tier(self, caller, t, new_tier, reason) ==
    IF reason # "80_percent_rule" /\ ~ensure_owner(caller)
    THEN Err(self, "Unauthorized")
    ELSE IF self.active_tier = new_tier
    THEN Ok(self, 0)
    ELSE Ok([self EXCEPT !.active_tier = new_tier, !.last_tier_change = t], 0)

check_and_execute_auto_tier_shift(self, caller, t) ==
    IF should_shift_tier(self) # Nil
    THEN shift_active_tier(self, caller, t, should_shift_tier(self), "80_percent_rule").self
    ELSE self

\* token data and storage after handle_tier_change(&mut token_data, new_tier, reason)
handle_tier_change(self, token_data, new_tier, reason, t) ==
    IF reason = "manual_override" \/ reason = "emergency"
    THEN [self |-> increment_tier_count(
                       decrement_tier_count(self, token_data.tier), new_tier),
          token_data |-> [token_data EXCEPT !.tier = new_tier,
                                            !.tier_change_timestamp = t,
                                            !.pending_tier_change = Nil]]
    ELSE [self |-> self,
          token_data |-> [token_data EXCEPT !.pending_tier_change = new_tier,
                                            !.tier_change_timestamp = t]]

RECURSIVE tokens_by_tier_loop(_, _, _, _)
tokens_by_tier_loop(self, tier, token_id, total_tokens) ==
    IF token_id > total_tokens THEN <<>>
    ELSE IF token_id \in DOMAIN self.tokens /\ self.tokens[token_id].tier = tier
    THEN <<token_id>> \o tokens_by_tier_loop(self, tier, token_id + 1, total_tokens)
    ELSE tokens_by_tier_loop(self, tier, token_id + 1, total_tokens)

get_tokens_by_tier(self, tier) ==
    tokens_by_tier_loop(self, tier, 1, get_token_count(self))

insert(mapping, key, value) ==
    [k \in DOMAIN mapping \cup {key} |-> IF k = key THEN value ELSE mapping[k]]

remove(mapping, key) == [k \in DOMAIN mapping \ {key} |-> mapping[k]]

(***************************************************************************)
(* Registry: messages.                                                     *)
(***************************************************************************)
grant_role(self, caller, role, account) ==
    IF ~ensure_owner(caller) THEN Err(self, "Unauthorized")
    ELSE IF account = ZeroAddress THEN Err(self, "ZeroAddress")
    ELSE Ok([self EXCEPT !.role_members = @ \cup {<<role, account>>}], 0)

revoke_role(self, caller, role, account) ==
    IF ~ensure_owner(caller) THEN Err(self, "Unauthorized")
    ELSE Ok([self EXCEPT !.role_members = @ \ {<<role, account>>}], 0)

add_token(self, caller, t, token_contract, oracle_contract, md) ==
    IF ~ensure_role(self, "TokenManager", caller) THEN Err(self, "UnauthorizedRole")
    ELSE IF token_contract = ZeroAddress THEN Err(self, "ZeroAddress")
    ELSE IF oracle_contract = ZeroAddress THEN Err(self, "ZeroAddress")
    ELSE IF token_contract \in DOMAIN self.token_contract_to_id
    THEN Err(self, "TokenAlreadyExists")
    ELSE
      LET token_id == self.next_token_id
          calculated == calculate_token_tier_internal(md)
          initial_tier == IF calculated = Nil THEN "None" ELSE calculated
          enhanced_token_data ==
              [token_contract |-> token_contract,
               oracle_contract |-> oracle_contract,
               balance |-> 0,
               weight_investment |-> 0,
               tier |-> initial_tier,
               tier_change_timestamp |-> NoTime,
               pending_tier_change |-> Nil]
          stored == [self EXCEPT
                       !.tokens = insert(@, token_id, enhanced_token_data),
                       !.token_contract_to_id = insert(@, token_contract, token_id),
                       !.next_token_id = @ + 1]
          counted == increment_tier_count(stored, initial_tier)
      IN  Ok(check_and_execute_auto_tier_shift(counted, caller, t), token_id)

\* a plausible slip: a failed oracle read fails the whole update
update_token_oracle_required(self, caller, t, token_id, balance, weight_investment, md) ==
    IF ~ensure_role(self, "TokenUpdater", caller) THEN Err(self, "UnauthorizedRole")
    ELSE IF weight_investment > MAX_WEIGHT_BP THEN Err(self, "InvalidWeight")
    ELSE IF token_id \notin DOMAIN self.tokens THEN Err(self, "TokenNotFound")
    ELSE IF calculate_token_tier_internal(md) = Nil THEN Err(self, "OracleCallFailed")
    ELSE
      LET old_tier == self.tokens[token_id].tier
          token_data == [self.tokens[token_id] EXCEPT
                            !.balance = balance,
                            !.weight_investment = weight_investment]
          new_tier == calculate_token_tier_internal(md)
          changed == IF new_tier # old_tier
                     THEN handle_tier_change(self, token_data, new_tier, "automatic", t)
                     ELSE [self |-> self, token_data |-> token_data]
      IN  Ok([changed.self EXCEPT !.tokens = insert(@, token_id, changed.token_data)], 0)

update_token(self, caller, t, token_id, balance, weight_investment, md) ==
    IF ~ensure_role(self, "TokenUpdater", caller) THEN Err(self, "UnauthorizedRole")
    ELSE IF weight_investment > MAX_WEIGHT_BP THEN Err(self, "InvalidWeight")
    ELSE IF token_id \notin DOMAIN self.tokens THEN Err(self, "TokenNotFound")
    ELSE
      LET old_tier == self.tokens[token_id].tier
          token_data == [self.tokens[token_id] EXCEPT
                            !.balance = balance,
                            !.weight_investment = weight_investment]
          calculated == calculate_token_tier_internal(md)
          new_tier == IF calculated = Nil THEN token_data.tier ELSE calculated
          changed == IF new_tier # old_tier
                     THEN handle_tier_change(self, token_data, new_tier, "automatic", t)
                     ELSE [self |-> self, token_data |-> token_data]
      IN  Ok([changed.self EXCEPT !.tokens = insert(@, token_id, changed.token_data)], 0)

\* a plausible slip: the reverse index keeps the removed contract
remove_token_keeps_reverse_index(self, caller, t, token_id) ==
    IF ~ensure_role(self, "TokenManager", caller) THEN Err(self, "UnauthorizedRole")
    ELSE IF token_id \notin DOMAIN self.tokens THEN Err(self, "TokenNotFound")
    ELSE
      LET tier == self.tokens[token_id].tier
          removed == [self EXCEPT !.tokens = remove(@, token_id)]
          counted == decrement_tier_count(removed, tier)
      IN  Ok(check_and_execute_auto_tier_shift(counted, caller, t), 0)

remove_token(self, caller, t, token_id) ==
    IF ~ensure_role(self, "TokenManager", caller) THEN Err(self, "UnauthorizedRole")
    ELSE IF token_id \notin DOMAIN self.tokens THEN Err(self, "TokenNotFound")
    ELSE
      LET token_contract == self.tokens[token_id].token_contract
          tier == self.tokens[token_id].tier
          removed == [self EXCEPT
                        !.tokens = remove(@, token_id),
                        !.token_contract_to_id = remove(@, token_contract)]
          counted == decrement_tier_count(removed, tier)
      IN  Ok(check_and_execute_auto_tier_shift(counted, caller, t), 0)

\* a plausible slip: the change is parked without comparing the tiers
update_token_tier_rescheduling(self, caller, t, token_id, md) ==
    IF ~ensure_role(self, "TokenManager", caller) THEN Err(self, "UnauthorizedRole")
    ELSE IF token_id \notin DOMAIN self.tokens THEN Err(self, "TokenNotFound")
    ELSE IF calculate_token_tier_internal(md) = Nil THEN Err(self, "OracleCallFailed")
    ELSE
      LET changed == handle_tier_change(self, self.tokens[token_id],
                         calculate_token_tier_internal(md), "manual", t)
      IN  Ok([changed.self EXCEPT !.tokens = insert(@, token_id, changed.token_data)],
             changed.token_data.tier)

update_token_tier(self, caller, t, token_id, md) ==
    IF ~ensure_role(self, "TokenManager", caller) THEN Err(self, "UnauthorizedRole")
    ELSE IF token_id \notin DOMAIN self.tokens THEN Err(self, "TokenNotFound")
    ELSE IF calculate_token_tier_internal(md) = Nil THEN Err(self, "OracleCallFailed")
    ELSE
      LET token_data == self.tokens[token_id]
          old_tier == token_data.tier
          new_tier == calculate_token_tier_internal(md)
      IN  IF new_tier # old_tier
          THEN LET changed == handle_tier_change(self, token_data, new_tier, "manual", t)
               IN  Ok([changed.self EXCEPT
                          !.tokens = insert(@, token_id, changed.token_data)],
                      changed.token_data.tier)
          ELSE Ok(self, token_data.tier)

\* a plausible slip: the override leaves a parked change in place
emergency_tier_override_keeping_pending(self, caller, t, token_id, new_tier) ==
    IF ~ensure_owner(caller) THEN Err(self, "Unauthorized")
    ELSE IF token_id \notin DOMAIN self.tokens THEN Err(self, "TokenNotFound")
    ELSE
      LET token_data == self.tokens[token_id]
          old_tier == token_data.tier
      IN  IF old_tier = new_tier THEN Ok(self, 0)
          ELSE LET counted == increment_tier_count(
                                  decrement_tier_count(self, old_tier), new_tier)
                   overridden == [token_data EXCEPT
                                     !.tier = new_tier,
                                     !.tier_change_timestamp = t]
               IN  Ok([counted EXCEPT !.tokens = insert(@, token_id, overridden)], 0)

emergency_tier_override(self, caller, t, token_id, new_tier) ==
    IF ~ensure_owner(caller) THEN Err(self, "Unauthorized")
    ELSE IF token_id \notin DOMAIN self.tokens THEN Err(self, "TokenNotFound")
    ELSE
      LET token_data == self.tokens[token_id]
          old_tier == token_data.tier
      IN  IF old_tier = new_tier THEN Ok(self, 0)
          ELSE LET counted == increment_tier_count(
                                  decrement_tier_count(self, old_tier), new_tier)
                   overridden == [token_data EXCEPT
                                     !.tier = new_tier,
                                     !.tier_change_timestamp = t,
                                     !.pending_tier_change = Nil]
               IN  Ok([counted EXCEPT !.tokens = insert(@, token_id, overridden)], 0)

emergency_tier_override_to_calculated(self, caller, t, token_id, md) ==
    IF ~ensure_owner(caller) THEN Err(self, "Unauthorized")
    ELSE IF token_id \notin DOMAIN self.tokens THEN Err(self, "TokenNotFound")
    ELSE IF calculate_token_tier_internal(md) = Nil THEN Err(self, "OracleCallFailed")
    ELSE LET calculated_tier == calculate_token_tier_internal(md)
             done == emergency_tier_override(self, caller, t, token_id, calculated_tier)
         IN  IF done.res = "Ok" THEN Ok(done.self, calculated_tier) ELSE done

clear_pending_tier_change(self, caller, token_id) ==
    IF ~ensure_owner(caller) THEN Err(self, "Unauthorized")
    ELSE IF token_id \notin DOMAIN self.tokens THEN Err(self, "TokenNotFound")
    ELSE IF self.tokens[token_id].pending_tier_change # Nil
    THEN Ok([self EXCEPT !.tokens[token_id].pending_tier_change = Nil,
                         !.tokens[token_id].tier_change_timestamp = NoTime], 0)
    ELSE Ok(self, 0)

set_grace_period(self, caller, period_ms) ==
    IF ~ensure_owner(caller) THEN Err(self, "Unauthorized")
    ELSE IF ~(MIN_GRACE_PERIOD_MS <= period_ms /\ period_ms <= MAX_GRACE_PERIOD_MS)
    THEN Err(self, "InvalidParameter")
    ELSE Ok([self EXCEPT !.grace_period_ms = period_ms], 0)

\* the loop of refresh_all_tiers from token_id on; mdf[id] is what the oracle of
\* token id answers; the result is the storage and updated_count
RECURSIVE refresh_loop(_, _, _, _, _, _)
refresh_loop(self, t, token_id, total_tokens, updated_count, mdf) ==
    IF token_id > total_tokens THEN [self |-> self, count |-> updated_count]
    ELSE IF token_id \in DOMAIN self.tokens
            /\ calculate_token_tier_internal(mdf[token_id]) # Nil
            /\ calculate_token_tier_internal(mdf[token_id]) # self.tokens[token_id].tier
    THEN LET changed == handle_tier_change(self, self.tokens[token_id],
                            calculate_token_tier_internal(mdf[token_id]), "scheduled", t)
         IN  refresh_loop([changed.self EXCEPT
                              !.tokens = insert(@, token_id, changed.token_data)],
                          t, token_id + 1, total_tokens, updated_count + 1, mdf)
    ELSE refresh_loop(self, t, token_id + 1, total_tokens, updated_count, mdf)

refresh_all_tiers(self, caller, t, mdf) ==
    IF ~ensure_role(self, "TokenManager", caller) THEN Err(self, "UnauthorizedRole")
    ELSE LET done == refresh_loop(self, t, 1, get_token_count(self), 0, mdf)
         IN  Ok(check_and_execute_auto_tier_shift(done.self, caller, t), done.count)

\* a plausible slip: the period must be exceeded, not merely reached
grace_period_expired_late(self, token_data, current_time) ==
    /\ token_data.pending_tier_change # Nil
    /\ token_data.tier_change_timestamp # NoTime
    /\ saturating_sub(current_time, token_data.tier_change_timestamp)
           > self.grace_period_ms

grace_period_expired(self, token_data, current_time) ==
    /\ token_data.pending_tier_change # Nil
    /\ token_data.tier_change_timestamp # NoTime
    /\ saturating_sub(current_time, token_data.tier_change_timestamp)
           >= self.grace_period_ms

\* a plausible slip: the cache is updated but the token is not stored back
apply_pending_tier_unstored(self, token_id, current_time) ==
    LET token_data == self.tokens[token_id]
    IN  increment_tier_count(decrement_tier_count(self, token_data.tier),
                             token_data.pending_tier_change)

\* the body of the loop of process_grace_periods for a token whose grace
\* period has expired
apply_pending_tier(self, token_id, current_time) ==
    LET token_data == self.tokens[token_id]
        old_tier == token_data.tier
        pending_tier == token_data.pending_tier_change
        counted == increment_tier_count(decrement_tier_count(self, old_tier),
                                        pending_tier)
        applied == [token_data EXCEPT
                       !.tier = pending_tier,
                       !.pending_tier_change = Nil,
                       !.tier_change_timestamp = current_time]
    IN  [counted EXCEPT !.tokens = insert(@, token_id, applied)]

\* the loop of process_grace_periods from token_id on
RECURSIVE process_loop(_, _, _, _, _)
process_loop(self, current_time, token_id, total_tokens, processed_count) ==
    IF token_id > total_tokens THEN [self |-> self, count |-> processed_count]
    ELSE IF token_id \in DOMAIN self.tokens
            /\ grace_period_expired(self, self.tokens[token_id], current_time)
    THEN process_loop(apply_pending_tier(self, token_id, current_time),
                      current_time, token_id + 1, total_tokens, processed_count + 1)
    ELSE process_loop(self, current_time, token_id + 1, total_tokens, processed_count)

process_grace_periods(self, caller, t) ==
    IF ~ensure_role(self, "TokenUpdater", caller) THEN Err(self, "UnauthorizedRole")
    ELSE LET done == process_loop(self, t, 1, get_token_count(self), 0)
         IN  IF done.count > 0
             THEN Ok(check_and_execute_auto_tier_shift(done.self, caller, t), done.count)
             ELSE Ok(done.self, done.count)

(***************************************************************************)
(* The Portfolio as a value.  Amounts, prices and values are u128 in the   *)
(* source; here their width is U128_MAX, and a checked operation that      *)
(* yields None yields Overflow.  The index base value is in 10^9 plancks.  *)
(* quotes[token_id] is what the Registry answers for get_token_data of the *)
(* token during the call: its price, or NoQuote when the call fails.       *)
(***************************************************************************)
Portfolio ==
    [state                  |-> state,
     holdings               |-> holdings,
     held_token_ids         |-> held_token_ids,
     total_tokens_held      |-> total_tokens_held,
     base_portfolio_value   |-> base_portfolio_value,
     current_index_value    |-> current_index_value,
     last_index_update      |-> last_index_update,
     index_tracking_enabled |-> index_tracking_enabled,
     registry_contract      |-> registry_contract,
     max_tokens             |-> max_tokens,
     emergency_paused       |-> emergency_paused]

Overflow == -1
NoQuote == -1

DEFAULT_MAX_TOKENS == 50
INDEX_BASE_VALUE == 100
MAX_TARGET_WEIGHT_BP == 10000
usdc_balance == 0

checked_mul(a, b) == IF b = 0 \/ a <= U128_MAX \div b THEN a * b ELSE Overflow

saturating_add(a, b) == IF a >= U128_MAX - b THEN U128_MAX ELSE a + b

ensure_not_emergency_paused(self) == ~self.emergency_paused

\* the loop of calculate_total_target_weight over the ids still to visit
RECURSIVE total_target_weight_loop(_, _)
total_target_weight_loop(self, ids) ==
    IF ids = <<>> THEN 0
    ELSE IF Head(ids) \in DOMAIN self.holdings
    THEN self.holdings[Head(ids)].target_weight_bp
             + total_target_weight_loop(self, Tail(ids))
    ELSE total_target_weight_loop(self, Tail(ids))

calculate_total_target_weight(self) ==
    total_target_weight_loop(self, self.held_token_ids)

\* the price in the Registry's answer, or NoQuote for Err
call_registry_get_token_data(self, quotes, token_id) ==
    IF self.registry_contract = Nil THEN NoQuote ELSE quotes[token_id]

\* the loop of calculate_total_portfolio_value over the ids still to visit
RECURSIVE portfolio_value_loop(_, _, _, _, _)
portfolio_value_loop(self, quotes, ids, total_value, successful_valuations) ==
    IF ids = <<>>
    THEN [total_value |-> total_value, successful_valuations |-> successful_valuations]
    ELSE IF Head(ids) \notin DOMAIN self.holdings
    THEN portfolio_value_loop(self, quotes, Tail(ids), total_value, successful_valuations)
    ELSE LET holding == self.holdings[Head(ids)]
             price == call_registry_get_token_data(self, quotes, Head(ids))
             product == checked_mul(holding.amount, price)
             token_value == IF product = Overflow THEN 0 ELSE product
         IN  IF price # NoQuote
             THEN portfolio_value_loop(self, quotes, Tail(ids),
                      saturating_add(total_value, token_value),
                      successful_valuations + 1)
             ELSE portfolio_value_loop(self, quotes, Tail(ids),
                      saturating_add(total_value, holding.amount),
                      successful_valuations)

calculate_total_portfolio_value(self, quotes) ==
    IF self.total_tokens_held = 0 THEN Ok(self, usdc_balance)
    ELSE LET done == portfolio_value_loop(self, quotes, self.held_token_ids, 0, 0)
             total_value == saturating_add(done.total_value, usdc_balance)
         IN  IF self.total_tokens_held > 0 /\ done.successful_valuations = 0
             THEN Err(self, "OracleCallFailed")
             ELSE Ok(self, total_value)

\* a plausible slip: the test that the baseline is still unset is left out
initialize_base_portfolio_value_repeatable(self, caller, t, quotes) ==
    IF ~ensure_owner(caller) THEN Err(self, "Unauthorized")
    ELSE IF self.total_tokens_held = 0 THEN Err(self, "InvalidParameter")
    ELSE LET total_value == calculate_total_portfolio_value(self, quotes)
         IN  IF total_value.res # "Ok" THEN Err(self, total_value.res)
             ELSE IF total_value.ret = 0 THEN Err(self, "InvalidParameter")
             ELSE Ok([self EXCEPT !.base_portfolio_value = total_value.ret,
                                  !.current_index_value = INDEX_BASE_VALUE,
                                  !.index_tracking_enabled = TRUE,
                                  !.last_index_update = t], 0)

initialize_base_portfolio_value(self, caller, t, quotes) ==
    IF ~ensure_owner(caller) THEN Err(self, "Unauthorized")
    ELSE IF self.base_portfolio_value # 0 THEN Err(self, "InvalidParameter")
    ELSE IF self.total_tokens_held = 0 THEN Err(self, "InvalidParameter")
    ELSE LET total_value == calculate_total_portfolio_value(self, quotes)
         IN  IF total_value.res # "Ok" THEN Err(self, total_value.res)
             ELSE IF total_value.ret = 0 THEN Err(self, "InvalidParameter")
             ELSE Ok([self EXCEPT !.base_portfolio_value = total_value.ret,
                                  !.current_index_value = INDEX_BASE_VALUE,
                                  !.index_tracking_enabled = TRUE,
                                  !.last_index_update = t], 0)

\* a plausible slip: the product saturates instead of failing
calculate_current_index_value_saturating(self, quotes) ==
    IF ~self.index_tracking_enabled \/ self.base_portfolio_value = 0
    THEN Ok(self, INDEX_BASE_VALUE)
    ELSE LET current_portfolio_value == calculate_total_portfolio_value(self, quotes)
         IN  IF current_portfolio_value.res # "Ok"
             THEN Err(self, current_portfolio_value.res)
             ELSE IF checked_mul(current_portfolio_value.ret, INDEX_BASE_VALUE) = Overflow
             THEN Ok(self, U128_MAX \div self.base_portfolio_value)
             ELSE Ok(self, checked_mul(current_portfolio_value.ret, INDEX_BASE_VALUE)
                               \div self.base_portfolio_value)

calculate_current_index_value(self, quotes) ==
    IF ~self.index_tracking_enabled \/ self.base_portfolio_value = 0
    THEN Ok(self, INDEX_BASE_VALUE)
    ELSE LET current_portfolio_value == calculate_total_portfolio_value(self, quotes)
         IN  IF current_portfolio_value.res # "Ok"
             THEN Err(self, current_portfolio_value.res)
             ELSE IF checked_mul(current_portfolio_value.ret, INDEX_BASE_VALUE) = Overflow
             THEN Err(self, "InvalidParameter")
             ELSE Ok(self, checked_mul(current_portfolio_value.ret, INDEX_BASE_VALUE)
                               \div self.base_portfolio_value)

calculate_performance_bp(self, current_value) ==
    IF INDEX_BASE_VALUE = 0 THEN Ok(self, 0)
    ELSE IF current_value >= INDEX_BASE_VALUE
    THEN LET gain == current_value - INDEX_BASE_VALUE
         IN  IF checked_mul(gain, 10000) = Overflow THEN Err(self, "InvalidParameter")
             ELSE Ok(self, checked_mul(gain, 10000) \div INDEX_BASE_VALUE)
    ELSE LET loss == INDEX_BASE_VALUE - current_value
         IN  IF checked_mul(loss, 10000) = Overflow THEN Err(self, "InvalidParameter")
             ELSE Ok(self, 0 - (checked_mul(loss, 10000) \div INDEX_BASE_VALUE))

\* the cached value and its timestamp are written before the performance is
\* computed, so an error of calculate_performance_bp comes with the new storage
update_index_value(self, caller, t, quotes) ==
    IF ~ensure_owner(caller) THEN Err(self, "Unauthorized")
    ELSE IF ~self.index_tracking_enabled THEN Ok(self, INDEX_BASE_VALUE)
    ELSE LET new_value == calculate_current_index_value(self, quotes)
             written == [self EXCEPT !.current_index_value = new_value.ret,
                                     !.last_index_update = t]
         IN  IF new_value.res # "Ok" THEN Err(self, new_value.res)
             ELSE IF calculate_performance_bp(written, new_value.ret).res # "Ok"
             THEN [self |-> written, res |-> "InvalidParameter", ret |-> 0]
             ELSE Ok(written, new_value.ret)

get_index_performance(self) == calculate_performance_bp(self, self.current_index_value)

\* the error of update_index_value is passed on together with its writes
refresh_index_value(self, caller, t, quotes) ==
    IF ~ensure_owner(caller) THEN Err(self, "Unauthorized")
    ELSE LET new_value == update_index_value(self, caller, t, quotes)
         IN  IF new_value.res # "Ok" THEN new_value
             ELSE IF get_index_performance(new_value.self).res # "Ok"
             THEN [self |-> new_value.self, res |-> "InvalidParameter", ret |-> 0]
             ELSE Ok(new_value.self, new_value.ret)

\* a plausible slip: the timestamp is renewed whether the update succeeded or not
trigger_index_update_stamping(self, caller, t, quotes) ==
    IF self.index_tracking_enabled
    THEN [update_index_value(self, caller, t, quotes).self EXCEPT !.last_index_update = t]
    ELSE self

\* let _ = self.update_index_value(): the result is dropped, the writes stay
trigger_index_update(self, caller, t, quotes) ==
    IF self.index_tracking_enabled
    THEN update_index_value(self, caller, t, quotes).self
    ELSE self

(***************************************************************************)
(* Portfolio: messages.                                                    *)
(***************************************************************************)
TokenHolding(amount, target_weight_bp, timestamp) ==
    [amount |-> amount, target_weight_bp |-> target_weight_bp,
     last_rebalance |-> timestamp, fees_collected |-> 0]

emergency_pause(self, caller) ==
    IF ~ensure_owner(caller) THEN Err(self, "Unauthorized")
    ELSE Ok([self EXCEPT !.emergency_paused = TRUE, !.state = "Emergency"], 0)

resume_operations(self, caller) ==
    IF ~ensure_owner(caller) THEN Err(self, "Unauthorized")
    ELSE Ok([self EXCEPT !.emergency_paused = FALSE, !.state = "Active"], 0)

set_registry_contract(self, caller, registry_address) ==
    IF ~ensure_owner(caller) THEN Err(self, "Unauthorized")
    ELSE Ok([self EXCEPT !.registry_contract = registry_address], 0)

\* a plausible slip: the weight of the new holding is not added to the total
add_token_holding_unsummed(self, caller, t, quotes, token_id, amount, target_weight_bp) ==
    IF ~ensure_owner(caller) THEN Err(self, "Unauthorized")
    ELSE IF ~ensure_not_emergency_paused(self) THEN Err(self, "InvalidParameter")
    ELSE IF amount = 0 THEN Err(self, "InvalidParameter")
    ELSE IF target_weight_bp > MAX_TARGET_WEIGHT_BP THEN Err(self, "InvalidParameter")
    ELSE IF token_id \in DOMAIN self.holdings THEN Err(self, "TokenAlreadyExists")
    ELSE IF self.total_tokens_held >= self.max_tokens THEN Err(self, "InvalidParameter")
    ELSE IF calculate_total_target_weight(self) > MAX_TARGET_WEIGHT_BP
    THEN Err(self, "InvalidParameter")
    ELSE LET stored == [self EXCEPT
                          !.holdings = insert(@, token_id,
                              TokenHolding(amount, target_weight_bp, t)),
                          !.held_token_ids = Append(@, token_id),
                          !.total_tokens_held = @ + 1]
         IN  Ok(trigger_index_update(stored, caller, t, quotes), 0)

add_token_holding(self, caller, t, quotes, token_id, amount, target_weight_bp) ==
    IF ~ensure_owner(caller) THEN Err(self, "Unauthorized")
    ELSE IF ~ensure_not_emergency_paused(self) THEN Err(self, "InvalidParameter")
    ELSE IF amount = 0 THEN Err(self, "InvalidParameter")
    ELSE IF target_weight_bp > MAX_TARGET_WEIGHT_BP THEN Err(self, "InvalidParameter")
    ELSE IF token_id \in DOMAIN self.holdings THEN Err(self, "TokenAlreadyExists")
    ELSE IF self.total_tokens_held >= self.max_tokens THEN Err(self, "InvalidParameter")
    ELSE IF calculate_total_target_weight(self) + target_weight_bp > MAX_TARGET_WEIGHT_BP
    THEN Err(self, "InvalidParameter")
    ELSE LET stored == [self EXCEPT
                          !.holdings = insert(@, token_id,
                              TokenHolding(amount, target_weight_bp, t)),
                          !.held_token_ids = Append(@, token_id),
                          !.total_tokens_held = @ + 1]
         IN  Ok(trigger_index_update(stored, caller, t, quotes), 0)

update_token_holding(self, caller, t, quotes, token_id, new_amount, new_target_weight_bp) ==
    IF ~ensure_owner(caller) THEN Err(self, "Unauthorized")
    ELSE IF ~ensure_not_emergency_paused(self) THEN Err(self, "InvalidParameter")
    ELSE IF new_target_weight_bp > MAX_TARGET_WEIGHT_BP THEN Err(self, "InvalidParameter")
    ELSE IF token_id \notin DOMAIN self.holdings THEN Err(self, "TokenNotFound")
    ELSE
      LET holding == self.holdings[token_id]
          current_total_weight == calculate_total_target_weight(self)
          weight_change ==
              IF new_target_weight_bp >= holding.target_weight_bp
              THEN saturating_sub(new_target_weight_bp, holding.target_weight_bp)
              ELSE saturating_sub(holding.target_weight_bp, new_target_weight_bp)
          new_total_weight ==
              IF new_target_weight_bp >= holding.target_weight_bp
              THEN current_total_weight + weight_change
              ELSE saturating_sub(current_total_weight, weight_change)
          updated == [holding EXCEPT !.amount = new_amount,
                                     !.target_weight_bp = new_target_weight_bp,
                                     !.last_rebalance = t]
          stored == [self EXCEPT !.holdings = insert(@, token_id, updated)]
      IN  IF new_total_weight > MAX_TARGET_WEIGHT_BP THEN Err(self, "InvalidParameter")
          ELSE Ok(trigger_index_update(stored, caller, t, quotes), 0)

\* held_token_ids without its first occurrence of token_id
RECURSIVE remove_first(_, _)
remove_first(ids, token_id) ==
    IF ids = <<>> THEN <<>>
    ELSE IF Head(ids) = token_id THEN Tail(ids)
    ELSE <<Head(ids)>> \o remove_first(Tail(ids), token_id)

remove_token_holding(self, caller, t, quotes, token_id) ==
    IF ~ensure_owner(caller) THEN Err(self, "Unauthorized")
    ELSE IF ~ensure_not_emergency_paused(self) THEN Err(self, "InvalidParameter")
    ELSE IF token_id \notin DOMAIN self.holdings THEN Err(self, "TokenNotFound")
    ELSE LET stored == [self EXCEPT
                          !.holdings = remove(@, token_id),
                          !.held_token_ids = remove_first(@, token_id),
                          !.total_tokens_held = saturating_sub(@, 1)]
         IN  Ok(trigger_index_update(stored, caller, t, quotes), 0)

\* the first loop of add_multiple_holdings: the error of the first entry that
\* fails validation, or "Ok"
RECURSIVE validate_holdings_data(_, _)
validate_holdings_data(self, holdings_data) ==
    IF holdings_data = <<>> THEN "Ok"
    ELSE IF Head(holdings_data)[2] = 0 \/ Head(holdings_data)[3] > MAX_TARGET_WEIGHT_BP
    THEN "InvalidParameter"
    ELSE IF Head(holdings_data)[1] \in DOMAIN self.holdings THEN "TokenAlreadyExists"
    ELSE validate_holdings_data(self, Tail(holdings_data))

RECURSIVE total_new_weight(_)
total_new_weight(holdings_data) ==
    IF holdings_data = <<>> THEN 0
    ELSE Head(holdings_data)[3] + total_new_weight(Tail(holdings_data))

\* the second loop of add_multiple_holdings
RECURSIVE insert_holdings_data(_, _, _)
insert_holdings_data(self, t, holdings_data) ==
    IF holdings_data = <<>> THEN self
    ELSE insert_holdings_data(
             [self EXCEPT
                !.holdings = insert(@, Head(holdings_data)[1],
                    TokenHolding(Head(holdings_data)[2], Head(holdings_data)[3], t)),
                !.held_token_ids = Append(@, Head(holdings_data)[1]),
                !.total_tokens_held = @ + 1],
             t, Tail(holdings_data))

add_multiple_holdings(self, caller, t, holdings_data) ==
    IF ~ensure_owner(caller) THEN Err(self, "Unauthorized")
    ELSE IF ~ensure_not_emergency_paused(self) THEN Err(self, "InvalidParameter")
    ELSE IF holdings_data = <<>> THEN Err(self, "InvalidParameter")
    ELSE IF self.total_tokens_held + Len(holdings_data) > self.max_tokens
    THEN Err(self, "InvalidParameter")
    ELSE IF validate_holdings_data(self, holdings_data) # "Ok"
    THEN Err(self, validate_holdings_data(self, holdings_data))
    ELSE IF calculate_total_target_weight(self) + total_new_weight(holdings_data)
                > MAX_TARGET_WEIGHT_BP
    THEN Err(self, "InvalidParameter")
    ELSE Ok(insert_holdings_data(self, t, holdings_data), Len(holdings_data))

\* the loop of update_multiple_amounts
RECURSIVE update_amounts_loop(_, _, _, _)
update_amounts_loop(self, t, updates, updated_count) ==
    IF updates = <<>> THEN [self |-> self, count |-> updated_count]
    ELSE IF Head(updates)[1] \in DOMAIN self.holdings
    THEN update_amounts_loop(
             [self EXCEPT !.holdings[Head(updates)[1]].amount = Head(updates)[2],
                          !.holdings[Head(updates)[1]].last_rebalance = t],
             t, Tail(updates), updated_count + 1)
    ELSE update_amounts_loop(self, t, Tail(updates), updated_count)

update_multiple_amounts(self, caller, t, updates) ==
    IF ~ensure_owner(caller) THEN Err(self, "Unauthorized")
    ELSE IF ~ensure_not_emergency_paused(self) THEN Err(self, "InvalidParameter")
    ELSE IF updates = <<>> THEN Err(self, "InvalidParameter")
    ELSE LET done == update_amounts_loop(self, t, updates, 0)
         IN  Ok(done.self, done.count)

set_max_tokens(self, caller, new_max_tokens) ==
    IF ~ensure_owner(caller) THEN Err(self, "Unauthorized")
    ELSE IF new_max_tokens = 0 \/ new_max_tokens < self.total_tokens_held
    THEN Err(self, "InvalidParameter")
    ELSE Ok([self EXCEPT !.max_tokens = new_max_tokens], 0)

\* the flag is written before the automatic initialisation can fail
set_index_tracking(self, caller, t, quotes, enabled) ==
    IF ~ensure_owner(caller) THEN Err(self, "Unauthorized")
    ELSE LET flagged == [self EXCEPT !.index_tracking_enabled = enabled]
             initialized == initialize_base_portfolio_value(flagged, caller, t, quotes)
         IN  IF enabled /\ flagged.base_portfolio_value = 0
                /\ flagged.total_tokens_held > 0
             THEN IF initialized.res = "Ok" THEN Ok(initialized.self, 0)
                  ELSE [self |-> flagged, res |-> initialized.res, ret |-> 0]
             ELSE Ok(flagged, 0)

emergency_reset_base_value(self, caller, t, quotes) ==
    IF ~ensure_owner(caller) THEN Err(self, "Unauthorized")
    ELSE LET current_value == calculate_total_portfolio_value(self, quotes)
         IN  IF current_value.res # "Ok" THEN Err(self, current_value.res)
             ELSE Ok([self EXCEPT !.base_portfolio_value = current_value.ret,
                                  !.current_index_value = INDEX_BASE_VALUE,
                                  !.last_index_update = t], 0)

(***************************************************************************)
(* Staking: the contract as a value, constants and helpers.                *)
(* Times of the Staking contract are counted in days, amounts in 10^5 base *)
(* units; REWARDS_RATE_ANNUAL and the divisor 10^8 it is paired with are   *)
(* both divided by 10^6, which keeps their quotient.                       *)
(***************************************************************************)
Staking ==
    [w3pi_token           |-> w3pi_token,
     registry             |-> registry,
     paused               |-> paused,
     stakes               |-> stakes,
     total_staked         |-> total_staked,
     unstaking_requests   |-> unstaking_requests,
     reentrancy_guard     |-> reentrancy_guard,
     fee_wallet           |-> fee_wallet,
     total_collected_fees |-> total_collected_fees]

MAX_UNSTAKING_REQUESTS == 10
REWARDS_RATE_ANNUAL == 5000
REWARDS_RATE_DIVISOR == 100
SECONDS_PER_YEAR == 365
PERFORMANCE_FEE_PERCENT == 10
TIER1_UNSTAKING_PERIOD == 14
TIER2_UNSTAKING_PERIOD == 10
TIER3_UNSTAKING_PERIOD == 7
TIER4_UNSTAKING_PERIOD == 3

\* what a cross-contract call that trapped or returned an error yields
CallFailed == "CallFailed"
\* the account of the Staking contract itself
StakingAccount == "staking"

\* a token transfer the message made
Transfer(from, to, amount) == [from |-> from, to |-> to, amount |-> amount]

\* Ok(()) with the storage written and the token transfers made
Done(self, transfers) == [self |-> self, res |-> "Ok", ret |-> transfers]

\* an error returned with the storage as written so far
Failed(self, error) == [self |-> self, res |-> error, ret |-> <<>>]

\* ink! writes the storage back only when the message did not return Err
committed(self, call) == IF call.res = "Ok" THEN call.self ELSE self

saturating_mul(a, b) ==
    IF b # 0 /\ a > U128_MAX \div b THEN U128_MAX ELSE a * b

ensure_not_paused(self) == ~self.paused

\* non_reentrant!(self, { body }): refuse when the lock is held, else hold it
\* while the body runs and release it whatever the body returned
enter(self) == [self EXCEPT !.reentrancy_guard = TRUE]

non_reentrant(self, result) ==
    IF self.reentrancy_guard THEN Failed(self, "ReentrantCall")
    ELSE [result EXCEPT !.self.reentrancy_guard = FALSE]

\* tier_reply is what the contract at self.registry answered: a tier or CallFailed
get_current_tier(tier_reply) == tier_reply

get_unstaking_period(tier_reply) ==
    LET current_tier == get_current_tier(tier_reply)
    IN  CASE current_tier = CallFailed -> CallFailed
          [] current_tier = "Tier1" -> TIER1_UNSTAKING_PERIOD
          [] current_tier = "Tier2" -> TIER2_UNSTAKING_PERIOD
          [] current_tier = "Tier3" -> TIER3_UNSTAKING_PERIOD
          [] current_tier = "Tier4" -> TIER4_UNSTAKING_PERIOD
          [] current_tier = "None" -> TIER1_UNSTAKING_PERIOD

calculate_rewards_with_fee(stake_info, current_time) ==
    LET time_elapsed == saturating_sub(current_time, stake_info.last_claim)
        total_reward ==
            (saturating_mul(saturating_mul(stake_info.amount, REWARDS_RATE_ANNUAL),
                            time_elapsed)
                \div SECONDS_PER_YEAR) \div REWARDS_RATE_DIVISOR
        fee_amount == saturating_mul(total_reward, PERFORMANCE_FEE_PERCENT) \div 100
        net_reward == saturating_sub(total_reward, fee_amount)
    IN  IF time_elapsed = 0
        THEN [net_reward |-> 0, fee_amount |-> 0]
        ELSE [net_reward |-> net_reward, fee_amount |-> fee_amount]

StakeInfo(amount, staked_at, last_claim, unstaking_period, tier_at_stake) ==
    [amount |-> amount, staked_at |-> staked_at, last_claim |-> last_claim,
     unstaking_period |-> unstaking_period, tier_at_stake |-> tier_at_stake]

UnstakingRequest(amount, requested_at, available_at, claimed) ==
    [amount |-> amount, requested_at |-> requested_at,
     available_at |-> available_at, claimed |-> claimed]

\* Vec<UnstakingRequest> of an account, unwrap_or_default
requests_of(self, account) ==
    IF account \in DOMAIN self.unstaking_requests
    THEN self.unstaking_requests[account]
    ELSE <<>>

(***************************************************************************)
(* Staking: messages.  env is what the other contracts answered during the *)
(* call: env.tier the reply to the tier read, env.pull whether the         *)
(* transfer_from of the caller's tokens succeeded, env.push[i] whether the *)
(* i-th transfer the message may make out of the contract succeeded.       *)
(***************************************************************************)
\* a plausible slip: the result of the transfer_from is dropped
stake_body_pull_unchecked(self, caller, t, env, amount) ==
    IF ~ensure_not_paused(self) THEN Failed(self, "ContractPaused")
    ELSE IF amount = 0 THEN Failed(self, "InvalidParameters")
    ELSE IF get_current_tier(env.tier) = CallFailed
    THEN Failed(self, "CrossContractCallFailed")
    ELSE
      LET unstaking_period == get_unstaking_period(env.tier)
          current_tier == get_current_tier(env.tier)
          existing == caller \in DOMAIN self.stakes
          rewards == IF existing
                     THEN calculate_rewards_with_fee(self.stakes[caller], t)
                     ELSE [net_reward |-> 0, fee_amount |-> 0]
          fee_due == existing /\ rewards.fee_amount > 0
          counted == IF fee_due
                     THEN [self EXCEPT !.total_collected_fees =
                                          saturating_add(@, rewards.fee_amount)]
                     ELSE self
          fee_transfer == IF fee_due
                          THEN <<Transfer(StakingAccount, self.fee_wallet,
                                          rewards.fee_amount)>>
                          ELSE <<>>
          stake_info ==
              IF existing
              THEN StakeInfo(saturating_add(
                                 saturating_add(self.stakes[caller].amount, amount),
                                 rewards.net_reward),
                             self.stakes[caller].staked_at, t,
                             unstaking_period, current_tier)
              ELSE StakeInfo(amount, t, t, unstaking_period, current_tier)
          stored == [counted EXCEPT
                       !.stakes = insert(@, caller, stake_info),
                       !.total_staked = saturating_add(@, amount)]
      IN  IF fee_due /\ ~env.push[1] THEN Failed(counted, "TransferFailed")
          ELSE Done(stored,
                    fee_transfer \o <<Transfer(caller, StakingAccount, amount)>>)

\* a plausible slip: a top-up keeps the period and tier the stake had
stake_body_keeps_period(self, caller, t, env, amount) ==
    IF ~ensure_not_paused(self) THEN Failed(self, "ContractPaused")
    ELSE IF amount = 0 THEN Failed(self, "InvalidParameters")
    ELSE IF get_current_tier(env.tier) = CallFailed
    THEN Failed(self, "CrossContractCallFailed")
    ELSE
      LET unstaking_period == get_unstaking_period(env.tier)
          current_tier == get_current_tier(env.tier)
          existing == caller \in DOMAIN self.stakes
          rewards == IF existing
                     THEN calculate_rewards_with_fee(self.stakes[caller], t)
                     ELSE [net_reward |-> 0, fee_amount |-> 0]
          fee_due == existing /\ rewards.fee_amount > 0
          counted == IF fee_due
                     THEN [self EXCEPT !.total_collected_fees =
                                          saturating_add(@, rewards.fee_amount)]
                     ELSE self
          fee_transfer == IF fee_due
                          THEN <<Transfer(StakingAccount, self.fee_wallet,
                                          rewards.fee_amount)>>
                          ELSE <<>>
          stake_info ==
              IF existing
              THEN StakeInfo(saturating_add(
                                 saturating_add(self.stakes[caller].amount, amount),
                                 rewards.net_reward),
                             self.stakes[caller].staked_at, t,
                             self.stakes[caller].unstaking_period,
                             self.stakes[caller].tier_at_stake)
              ELSE StakeInfo(amount, t, t, unstaking_period, current_tier)
          stored == [counted EXCEPT
                       !.stakes = insert(@, caller, stake_info),
                       !.total_staked = saturating_add(@, amount)]
      IN  IF fee_due /\ ~env.push[1] THEN Failed(counted, "TransferFailed")
          ELSE IF ~env.pull THEN Failed(stored, "TransferFailed")
          ELSE Done(stored,
                    fee_transfer \o <<Transfer(caller, StakingAccount, amount)>>)

stake_body(self, caller, t, env, amount) ==
    IF ~ensure_not_paused(self) THEN Failed(self, "ContractPaused")
    ELSE IF amount = 0 THEN Failed(self, "InvalidParameters")
    ELSE IF get_current_tier(env.tier) = CallFailed
    THEN Failed(self, "CrossContractCallFailed")
    ELSE
      LET unstaking_period == get_unstaking_period(env.tier)
          current_tier == get_current_tier(env.tier)
          existing == caller \in DOMAIN self.stakes
          rewards == IF existing
                     THEN calculate_rewards_with_fee(self.stakes[caller], t)
                     ELSE [net_reward |-> 0, fee_amount |-> 0]
          fee_due == existing /\ rewards.fee_amount > 0
          counted == IF fee_due
                     THEN [self EXCEPT !.total_collected_fees =
                                          saturating_add(@, rewards.fee_amount)]
                     ELSE self
          fee_transfer == IF fee_due
                          THEN <<Transfer(StakingAccount, self.fee_wallet,
                                          rewards.fee_amount)>>
                          ELSE <<>>
          stake_info ==
              IF existing
              THEN StakeInfo(saturating_add(
                                 saturating_add(self.stakes[caller].amount, amount),
                                 rewards.net_reward),
                             self.stakes[caller].staked_at, t,
                             unstaking_period, current_tier)
              ELSE StakeInfo(amount, t, t, unstaking_period, current_tier)
          stored == [counted EXCEPT
                       !.stakes = insert(@, caller, stake_info),
                       !.total_staked = saturating_add(@, amount)]
      IN  IF fee_due /\ ~env.push[1] THEN Failed(counted, "TransferFailed")
          ELSE IF ~env.pull THEN Failed(stored, "TransferFailed")
          ELSE Done(stored,
                    fee_transfer \o <<Transfer(caller, StakingAccount, amount)>>)

stake(self, caller, t, env, amount) ==
    non_reentrant(self, stake_body(enter(self), caller, t, env, amount))

\* a plausible slip: only the requests not yet claimed count toward the cap
request_unstake_body_counting_unclaimed(self, caller, t, amount) ==
    IF ~ensure_not_paused(self) THEN Failed(self, "ContractPaused")
    ELSE IF amount = 0 THEN Failed(self, "InvalidParameters")
    ELSE IF caller \notin DOMAIN self.stakes THEN Failed(self, "InvalidParameters")
    ELSE IF self.stakes[caller].amount < amount
    THEN Failed(self, "InsufficientBalance")
    ELSE IF Cardinality({i \in 1..Len(requests_of(self, caller)) :
                            ~requests_of(self, caller)[i].claimed})
                >= MAX_UNSTAKING_REQUESTS
    THEN Failed(self, "InvalidParameters")
    ELSE
      LET stake_info == [self.stakes[caller] EXCEPT
                            !.amount = saturating_sub(@, amount)]
          available_at == saturating_add(t, stake_info.unstaking_period)
          request == UnstakingRequest(amount, t, available_at, FALSE)
          requests == Append(requests_of(self, caller), request)
      IN  Done([self EXCEPT
                  !.unstaking_requests = insert(@, caller, requests),
                  !.stakes = IF stake_info.amount = 0
                             THEN remove(@, caller)
                             ELSE insert(@, caller, stake_info),
                  !.total_staked = saturating_sub(@, amount)],
               <<>>)

request_unstake_body(self, caller, t, amount) ==
    IF ~ensure_not_paused(self) THEN Failed(self, "ContractPaused")
    ELSE IF amount = 0 THEN Failed(self, "InvalidParameters")
    ELSE IF caller \notin DOMAIN self.stakes THEN Failed(self, "InvalidParameters")
    ELSE IF self.stakes[caller].amount < amount
    THEN Failed(self, "InsufficientBalance")
    ELSE IF Len(requests_of(self, caller)) >= MAX_UNSTAKING_REQUESTS
    THEN Failed(self, "InvalidParameters")
    ELSE
      LET stake_info == [self.stakes[caller] EXCEPT
                            !.amount = saturating_sub(@, amount)]
          available_at == saturating_add(t, stake_info.unstaking_period)
          request == UnstakingRequest(amount, t, available_at, FALSE)
          requests == Append(requests_of(self, caller), request)
      IN  Done([self EXCEPT
                  !.unstaking_requests = insert(@, caller, requests),
                  !.stakes = IF stake_info.amount = 0
                             THEN remove(@, caller)
                             ELSE insert(@, caller, stake_info),
                  !.total_staked = saturating_sub(@, amount)],
               <<>>)

request_unstake(self, caller, t, amount) ==
    non_reentrant(self, request_unstake_body(enter(self), caller, t, amount))

\* a plausible slip: the loop does not look at the claimed flag
RECURSIVE claim_loop_repaying(_, _)
claim_loop_repaying(requests, current_time) ==
    IF requests = <<>>
    THEN [requests |-> <<>>, total_to_claim |-> 0, has_claimable |-> FALSE]
    ELSE LET request == Head(requests)
             rest == claim_loop_repaying(Tail(requests), current_time)
         IN  IF current_time >= request.available_at
             THEN [requests |-> <<[request EXCEPT !.claimed = TRUE]>> \o rest.requests,
                   total_to_claim |-> saturating_add(rest.total_to_claim,
                                                     request.amount),
                   has_claimable |-> TRUE]
             ELSE [rest EXCEPT !.requests = <<request>> \o @]

\* the loop of claim_unstaked over the requests
RECURSIVE claim_loop(_, _)
claim_loop(requests, current_time) ==
    IF requests = <<>>
    THEN [requests |-> <<>>, total_to_claim |-> 0, has_claimable |-> FALSE]
    ELSE LET request == Head(requests)
             rest == claim_loop(Tail(requests), current_time)
         IN  IF ~request.claimed /\ current_time >= request.available_at
             THEN [requests |-> <<[request EXCEPT !.claimed = TRUE]>> \o rest.requests,
                   total_to_claim |-> saturating_add(rest.total_to_claim,
                                                     request.amount),
                   has_claimable |-> TRUE]
             ELSE [rest EXCEPT !.requests = <<request>> \o @]

\* a plausible slip: the requests marked claimed are not written back
claim_unstaked_body_unmarked(self, caller, t, env) ==
    IF ~ensure_not_paused(self) THEN Failed(self, "ContractPaused")
    ELSE IF requests_of(self, caller) = <<>> THEN Failed(self, "InvalidParameters")
    ELSE
      LET claimed == claim_loop(requests_of(self, caller), t)
      IN  IF ~claimed.has_claimable THEN Failed(self, "InvalidParameters")
          ELSE IF ~env.push[1] THEN Failed(self, "TransferFailed")
          ELSE Done(self,
                    <<Transfer(StakingAccount, caller, claimed.total_to_claim)>>)

\* a plausible slip: the result of the transfer is dropped
claim_unstaked_body_unpropagated(self, caller, t, env) ==
    IF ~ensure_not_paused(self) THEN Failed(self, "ContractPaused")
    ELSE IF requests_of(self, caller) = <<>> THEN Failed(self, "InvalidParameters")
    ELSE
      LET claimed == claim_loop(requests_of(self, caller), t)
          stored == [self EXCEPT
                       !.unstaking_requests = insert(@, caller, claimed.requests)]
      IN  IF ~claimed.has_claimable THEN Failed(self, "InvalidParameters")
          ELSE IF ~env.push[1] THEN Done(stored, <<>>)
          ELSE Done(stored,
                    <<Transfer(StakingAccount, caller, claimed.total_to_claim)>>)

claim_unstaked_body(self, caller, t, env) ==
    IF ~ensure_not_paused(self) THEN Failed(self, "ContractPaused")
    ELSE IF requests_of(self, caller) = <<>> THEN Failed(self, "InvalidParameters")
    ELSE
      LET claimed == claim_loop(requests_of(self, caller), t)
          stored == [self EXCEPT
                       !.unstaking_requests = insert(@, caller, claimed.requests)]
      IN  IF ~claimed.has_claimable THEN Failed(self, "InvalidParameters")
          ELSE IF ~env.push[1] THEN Failed(stored, "TransferFailed")
          ELSE Done(stored,
                    <<Transfer(StakingAccount, caller, claimed.total_to_claim)>>)

claim_unstaked(self, caller, t, env) ==
    non_reentrant(self, claim_unstaked_body(enter(self), caller, t, env))

\* a plausible slip: the reward paid out is also added to the stake
claim_rewards_body_compounding(self, caller, t, env) ==
    IF ~ensure_not_paused(self) THEN Failed(self, "ContractPaused")
    ELSE IF caller \notin DOMAIN self.stakes THEN Failed(self, "InvalidParameters")
    ELSE
      LET rewards == calculate_rewards_with_fee(self.stakes[caller], t)
          stored == [self EXCEPT
                       !.stakes[caller].last_claim = t,
                       !.stakes[caller].amount =
                           saturating_add(@, rewards.net_reward),
                       !.total_collected_fees =
                           saturating_add(@, rewards.fee_amount)]
          reward_transfer == <<Transfer(StakingAccount, caller, rewards.net_reward)>>
          fee_transfer == IF rewards.fee_amount > 0
                          THEN <<Transfer(StakingAccount, self.fee_wallet,
                                          rewards.fee_amount)>>
                          ELSE <<>>
      IN  IF rewards.net_reward = 0 THEN Failed(self, "InvalidParameters")
          ELSE IF ~env.push[1] THEN Failed(stored, "TransferFailed")
          ELSE IF rewards.fee_amount > 0 /\ ~env.push[2]
          THEN Failed(stored, "TransferFailed")
          ELSE Done(stored, reward_transfer \o fee_transfer)

claim_rewards_body(self, caller, t, env) ==
    IF ~ensure_not_paused(self) THEN Failed(self, "ContractPaused")
    ELSE IF caller \notin DOMAIN self.stakes THEN Failed(self, "InvalidParameters")
    ELSE
      LET rewards == calculate_rewards_with_fee(self.stakes[caller], t)
          stored == [self EXCEPT
                       !.stakes[caller].last_claim = t,
                       !.total_collected_fees =
                           saturating_add(@, rewards.fee_amount)]
          reward_transfer == <<Transfer(StakingAccount, caller, rewards.net_reward)>>
          fee_transfer == IF rewards.fee_amount > 0
                          THEN <<Transfer(StakingAccount, self.fee_wallet,
                                          rewards.fee_amount)>>
                          ELSE <<>>
      IN  IF rewards.net_reward = 0 THEN Failed(self, "InvalidParameters")
          ELSE IF ~env.push[1] THEN Failed(stored, "TransferFailed")
          ELSE IF rewards.fee_amount > 0 /\ ~env.push[2]
          THEN Failed(stored, "TransferFailed")
          ELSE Done(stored, reward_transfer \o fee_transfer)

claim_rewards(self, caller, t, env) ==
    non_reentrant(self, claim_rewards_body(enter(self), caller, t, env))

set_fee_wallet_body(self, caller, new_fee_wallet) ==
    IF ~ensure_owner(caller) THEN Failed(self, "Unauthorized")
    ELSE Done([self EXCEPT !.fee_wallet = new_fee_wallet], <<>>)

set_fee_wallet(self, caller, new_fee_wallet) ==
    non_reentrant(self, set_fee_wallet_body(enter(self), caller, new_fee_wallet))

pause_body(self, caller) ==
    IF ~ensure_owner(caller) THEN Failed(self, "Unauthorized")
    ELSE IF self.paused THEN Done(self, <<>>)
    ELSE Done([self EXCEPT !.paused = TRUE], <<>>)

\* a plausible slip: the early return of an already paused contract leaves
\* the message without giving the lock back
pause_early_return_locked(self, caller) ==
    IF self.reentrancy_guard THEN Failed(self, "ReentrantCall")
    ELSE IF ensure_owner(caller) /\ self.paused THEN Done(enter(self), <<>>)
    ELSE non_reentrant(self, pause_body(enter(self), caller))

pause(self, caller) == non_reentrant(self, pause_body(enter(self), caller))

unpause_body(self, caller) ==
    IF ~ensure_owner(caller) THEN Failed(self, "Unauthorized")
    ELSE IF ~self.paused THEN Done(self, <<>>)
    ELSE Done([self EXCEPT !.paused = FALSE], <<>>)

unpause(self, caller) == non_reentrant(self, unpause_body(enter(self), caller))

set_w3pi_token_body(self, caller, new_token) ==
    IF ~ensure_owner(caller) THEN Failed(self, "Unauthorized")
    ELSE Done([self EXCEPT !.w3pi_token = new_token], <<>>)

set_w3pi_token(self, caller, new_token) ==
    non_reentrant(self, set_w3pi_token_body(enter(self), caller, new_token))

set_registry_body(self, caller, new_registry) ==
    IF ~ensure_owner(caller) THEN Failed(self, "Unauthorized")
    ELSE Done([self EXCEPT !.registry = new_registry], <<>>)

set_registry(self, caller, new_registry) ==
    non_reentrant(self, set_registry_body(enter(self), caller, new_registry))

(***************************************************************************)
(* DEX: the contract as a value and its messages.  Reserves and amounts    *)
(* are u128 values, with U128_MAX standing for u128::MAX.                  *)
(***************************************************************************)
Dex ==
    [pools |-> pools, pool_keys |-> pool_keys,
     reentrancy_guard |-> dex_reentrancy_guard]

Pool(token_a, token_b, reserve_a, reserve_b) ==
    [token_a |-> token_a, token_b |-> token_b,
     reserve_a |-> reserve_a, reserve_b |-> reserve_b]

set_pool(self, caller, token_a, token_b, reserve_a, reserve_b) ==
    IF caller # Owner THEN Err(self, "Unauthorized")
    ELSE Ok([self EXCEPT
               !.pools = insert(@, <<token_a, token_b>>,
                                Pool(token_a, token_b, reserve_a, reserve_b)),
               !.pool_keys = Append(@, <<token_a, token_b>>)], 0)

\* self.pools.get((from, to)).or_else(|| self.pools.get((to, from)))
pool_for(self, from, to) ==
    IF <<from, to>> \in DOMAIN self.pools THEN self.pools[<<from, to>>]
    ELSE self.pools[<<to, from>>]

swap_body(self, from, to, amount, path) ==
    IF Len(path) # 2 \/ path[1] # from \/ path[2] # to
    THEN Err(self, "InvalidParameters")
    ELSE IF <<from, to>> \notin DOMAIN self.pools /\ <<to, from>> \notin DOMAIN self.pools
    THEN Err(self, "TokenNotFound")
    ELSE
      LET pool == pool_for(self, from, to)
          a_is_in == pool.token_a = from
          reserve_in == IF a_is_in THEN pool.reserve_a ELSE pool.reserve_b
          reserve_out == IF a_is_in THEN pool.reserve_b ELSE pool.reserve_a
          amount_out == saturating_mul(reserve_out, amount)
                            \div saturating_add(reserve_in, amount)
          new_in == saturating_add(reserve_in, amount)
          new_out == saturating_sub(reserve_out, amount_out)
          swapped == IF a_is_in
                     THEN [pool EXCEPT !.reserve_a = new_in, !.reserve_b = new_out]
                     ELSE [pool EXCEPT !.reserve_b = new_in, !.reserve_a = new_out]
      IN  IF reserve_in < amount \/ reserve_in = 0 \/ reserve_out = 0
          THEN Err(self, "InsufficientBalance")
          ELSE Ok([self EXCEPT
                     !.pools = insert(@, <<pool.token_a, pool.token_b>>, swapped)],
                  amount_out)

swap(self, from, to, amount, path) ==
    non_reentrant(self, swap_body(enter(self), from, to, amount, path))

(***************************************************************************)
(* Oracle: the contract as a value and its messages.  Timestamps are in    *)
(* milliseconds, the thresholds of the configuration in seconds; U64_MAX   *)
(* stands for u64::MAX.  Option<T> is a sequence: <<>> for None, <<x>> for *)
(* Some(x).                                                                *)
(***************************************************************************)
Oracle ==
    [token_data |-> oracle_token_data, authorized_updaters |-> authorized_updaters,
     validation_config |-> validation_config, paused |-> oracle_paused]

U64_MAX == 2147483647

TokenPriceData(price, market_cap, volume_24h, timestamp) ==
    [price |-> price, market_cap |-> market_cap,
     volume_24h |-> volume_24h, timestamp |-> timestamp]

ValidationConfig_default ==
    [max_deviation_bp |-> 2000, staleness_threshold |-> 3600,
     min_update_interval |-> 60]

\* Mapping::get
get(mapping, key) == IF key \in DOMAIN mapping THEN <<mapping[key]>> ELSE <<>>

\* u64::checked_mul(1000), Overflow standing for None
checked_mul_1000(seconds) ==
    IF seconds <= U64_MAX \div 1000 THEN seconds * 1000 ELSE Overflow

is_authorized_updater(self, account) ==
    account = Owner \/ account \in self.authorized_updaters

ensure_authorized(self, caller) == is_authorized_updater(self, caller)

\* "Ok" or the error
validate_price_update(self, new_price, existing) ==
    LET old_price == existing.price
        price_diff == IF new_price > old_price
                      THEN saturating_sub(new_price, old_price)
                      ELSE saturating_sub(old_price, new_price)
    IN  IF old_price = 0 THEN "Ok"
        ELSE IF checked_mul(price_diff, 10000) = Overflow THEN "InvalidParameter"
        ELSE IF checked_mul(price_diff, 10000) \div old_price
                    > self.validation_config.max_deviation_bp
        THEN "InvalidParameter"
        ELSE "Ok"

\* "Ok" or the error
validate_update_timing(self, existing, new_timestamp) ==
    LET time_diff == saturating_sub(new_timestamp, existing.timestamp)
        min_interval_ms == checked_mul_1000(self.validation_config.min_update_interval)
    IN  IF min_interval_ms = Overflow THEN "InvalidParameter"
        ELSE IF time_diff < min_interval_ms THEN "InvalidParameter"
        ELSE "Ok"

update_token_data(self, caller, t, token, price, market_cap, volume) ==
    IF self.paused THEN Err(self, "OracleCallFailed")
    ELSE IF ~ensure_authorized(self, caller) THEN Err(self, "Unauthorized")
    ELSE IF price = 0 THEN Err(self, "InvalidParameter")
    ELSE IF token \in DOMAIN self.token_data
            /\ validate_price_update(self, price, self.token_data[token]) # "Ok"
    THEN Err(self, "InvalidParameter")
    ELSE IF token \in DOMAIN self.token_data
            /\ validate_update_timing(self, self.token_data[token], t) # "Ok"
    THEN Err(self, "InvalidParameter")
    ELSE Ok([self EXCEPT !.token_data =
                insert(@, token, TokenPriceData(price, market_cap, volume, t))], 0)

update_market_data(self, caller, t, token, market_cap, volume) ==
    IF self.paused THEN Err(self, "OracleCallFailed")
    ELSE IF ~ensure_authorized(self, caller) THEN Err(self, "Unauthorized")
    ELSE IF token \notin DOMAIN self.token_data THEN Err(self, "InvalidParameter")
    ELSE Ok([self EXCEPT !.token_data[token].market_cap = market_cap,
                         !.token_data[token].volume_24h = volume,
                         !.token_data[token].timestamp = t], 0)

get_price(self, token) ==
    IF get(self.token_data, token) = <<>> THEN <<>>
    ELSE <<get(self.token_data, token)[1].price>>

get_market_cap(self, token) ==
    IF get(self.token_data, token) = <<>> THEN <<>>
    ELSE <<get(self.token_data, token)[1].market_cap>>

get_market_volume(self, token) ==
    IF get(self.token_data, token) = <<>> THEN <<>>
    ELSE <<get(self.token_data, token)[1].volume_24h>>

\* the product saturates at u64::MAX, which no age exceeds
is_price_stale(self, t, token) ==
    IF get(self.token_data, token) = <<>> THEN TRUE
    ELSE LET data == get(self.token_data, token)[1]
             product == checked_mul_1000(self.validation_config.staleness_threshold)
             staleness_threshold_ms == IF product = Overflow THEN U64_MAX ELSE product
         IN  saturating_sub(t, data.timestamp) > staleness_threshold_ms

add_updater(self, caller, updater) ==
    IF ~ensure_owner(caller) THEN Err(self, "Unauthorized")
    ELSE IF updater = Owner THEN Err(self, "InvalidParameter")
    ELSE Ok([self EXCEPT !.authorized_updaters = @ \cup {updater}], 0)

set_staleness_threshold(self, caller, staleness_threshold) ==
    IF ~ensure_owner(caller) THEN Err(self, "Unauthorized")
    ELSE IF staleness_threshold = 0 THEN Err(self, "InvalidParameter")
    ELSE Ok([self EXCEPT !.validation_config.staleness_threshold = staleness_threshold], 0)

pause_updates(self, caller) ==
    IF ~ensure_owner(caller) THEN Err(self, "Unauthorized")
    ELSE Ok([self EXCEPT !.paused = TRUE], 0)

resume_updates(self, caller) ==
    IF ~ensure_owner(caller) THEN Err(self, "Unauthorized")
    ELSE Ok([self EXCEPT !.paused = FALSE], 0)

(***************************************************************************)
(* Construction of the contracts, and a call as a step of the chain.       *)
(***************************************************************************)
Init ==
    /\ tokens = <<>>
    /\ token_contract_to_id = <<>>
    /\ role_members = {}
    /\ next_token_id = 1
    /\ active_tier = "Tier1"
    /\ tier_distribution = [tier \in Tier |-> 0]
    /\ last_tier_change = NoTime
    /\ grace_period_ms = DEFAULT_GRACE_PERIOD_MS
    /\ state = "Active"
    /\ holdings = <<>>
    /\ held_token_ids = <<>>
    /\ total_tokens_held = 0
    /\ base_portfolio_value = 0
    /\ current_index_value = INDEX_BASE_VALUE
    /\ last_index_update = 0
    /\ index_tracking_enabled = FALSE
    /\ registry_contract = Nil
    /\ max_tokens = DEFAULT_MAX_TOKENS
    /\ emergency_paused = FALSE
    /\ w3pi_token = "w3pi"
    /\ registry = "registry"
    /\ paused = FALSE
    /\ stakes = <<>>
    /\ total_staked = 0
    /\ unstaking_requests = <<>>
    /\ reentrancy_guard = FALSE
    /\ fee_wallet = "fees"
    /\ total_collected_fees = 0
    /\ pools = <<>>
    /\ pool_keys = <<>>
    /\ dex_reentrancy_guard = FALSE
    /\ oracle_token_data = <<>>
    /\ authorized_updaters = {}
    /\ validation_config = ValidationConfig_default
    /\ oracle_paused = FALSE
    /\ now = 0

\* the storage after the call; a call that returned an error has written nothing
Commit(call) ==
    /\ tokens' = call.self.tokens
    /\ token_contract_to_id' = call.self.token_contract_to_id
    /\ role_members' = call.self.role_members
    /\ next_token_id' = call.self.next_token_id
    /\ active_tier' = call.self.active_tier
    /\ tier_distribution' = call.self.tier_distribution
    /\ last_tier_change' = call.self.last_tier_change
    /\ grace_period_ms' = call.self.grace_period_ms
    /\ UNCHANGED <<portVars, stakingVars, dexVars, oracleVars, now>>

\* the Staking storage after the call
StakingCommit(call) ==
    LET self == committed(Staking, call)
    IN  /\ w3pi_token' = self.w3pi_token
        /\ registry' = self.registry
        /\ paused' = self.paused
        /\ stakes' = self.stakes
        /\ total_staked' = self.total_staked
        /\ unstaking_requests' = self.unstaking_requests
        /\ reentrancy_guard' = self.reentrancy_guard
        /\ fee_wallet' = self.fee_wallet
        /\ total_collected_fees' = self.total_collected_fees
        /\ UNCHANGED <<regVars, portVars, dexVars, oracleVars, now>>

\* the DEX storage after the call
DexCommit(call) ==
    LET self == committed(Dex, call)
    IN  /\ pools' = self.pools
        /\ pool_keys' = self.pool_keys
        /\ dex_reentrancy_guard' = self.reentrancy_guard
        /\ UNCHANGED <<regVars, portVars, stakingVars, oracleVars, now>>

\* the Oracle storage after the call
OracleCommit(call) ==
    LET self == committed(Oracle, call)
    IN  /\ oracle_token_data' = self.token_data
        /\ authorized_updaters' = self.authorized_updaters
        /\ validation_config' = self.validation_config
        /\ oracle_paused' = self.paused
        /\ UNCHANGED <<regVars, portVars, stakingVars, dexVars, now>>

\* the Portfolio's storage after the call; ink! reverts the storage of a
\* message that returned an error
PortfolioCommit(call) ==
    LET self == IF call.res = "Ok" THEN call.self ELSE Portfolio
    IN  /\ state' = self.state
        /\ holdings' = self.holdings
        /\ held_token_ids' = self.held_token_ids
        /\ total_tokens_held' = self.total_tokens_held
        /\ base_portfolio_value' = self.base_portfolio_value
        /\ current_index_value' = self.current_index_value
        /\ last_index_update' = self.last_index_update
        /\ index_tracking_enabled' = self.index_tracking_enabled
        /\ registry_contract' = self.registry_contract
        /\ max_tokens' = self.max_tokens
        /\ emergency_paused' = self.emergency_paused
        /\ UNCHANGED <<regVars, stakingVars, dexVars, oracleVars, now>>

\* the chain produces a block with a later timestamp
AdvanceTime ==
    /\ now' = now + 1
    /\ UNCHANGED <<regVars, portVars, stakingVars, dexVars, oracleVars>>

(***************************************************************************)
(* Inputs of the calls.                                                    *)
(***************************************************************************)
Accounts == {Owner, "alice"}
Grantees == {"alice", ZeroAddress}
Roles == {"TokenManager"}
TokenContracts == {"tokenA", "tokenB", ZeroAddress}
OracleContracts == {"oracle", ZeroAddress}
Reasons == {"80_percent_rule", "manual"}
TokenIds == 1..MaxTokens

Sample(cap, vol) == [ok |-> TRUE, cap |-> cap, vol |-> vol]
NoData == [ok |-> FALSE, cap |-> 0, vol |-> 0]
\* no answer, Tier1, Tier2
MarketData == {NoData, Sample(100, 10), Sample(500, 50)}
OverrideTiers == {"Tier2"}
ShiftTiers == {"Tier2"}
Updates == {<<5, 3000>>, <<5, 10001>>}
GracePeriods == {0, 1}

(***************************************************************************)
(* Spec: every message of the Registry, few tokens, time passing.          *)
(***************************************************************************)
GrantRole ==
    \E caller \in Accounts, role \in Roles, account \in Grantees :
        Commit(grant_role(Registry, caller, role, account))

RevokeRole ==
    \E caller \in Accounts, role \in Roles, account \in Grantees :
        Commit(revoke_role(Registry, caller, role, account))

AddToken ==
    \E caller \in Accounts, token_contract \in TokenContracts,
       oracle_contract \in OracleContracts, md \in MarketData :
        Commit(add_token(Registry, caller, now, token_contract, oracle_contract, md))

UpdateToken ==
    \E caller \in Accounts, token_id \in TokenIds, u \in Updates, md \in MarketData :
        Commit(update_token(Registry, caller, now, token_id, u[1], u[2], md))

RemoveToken ==
    \E caller \in Accounts, token_id \in TokenIds :
        Commit(remove_token(Registry, caller, now, token_id))

UpdateTokenTier ==
    \E caller \in Accounts, token_id \in TokenIds, md \in MarketData :
        Commit(update_token_tier(Registry, caller, now, token_id, md))

EmergencyTierOverride ==
    \E caller \in Accounts, token_id \in TokenIds, new_tier \in OverrideTiers :
        Commit(emergency_tier_override(Registry, caller, now, token_id, new_tier))

EmergencyTierOverrideToCalculated ==
    \E caller \in Accounts, token_id \in TokenIds, md \in MarketData :
        Commit(emergency_tier_override_to_calculated(Registry, caller, now, token_id, md))

ClearPendingTierChange ==
    \E caller \in Accounts, token_id \in TokenIds :
        Commit(clear_pending_tier_change(Registry, caller, token_id))

SetGracePeriod ==
    \E caller \in Accounts, period_ms \in GracePeriods :
        Commit(set_grace_period(Registry, caller, period_ms))

RefreshAllTiers ==
    \E caller \in Accounts, mdf \in [1..get_token_count(Registry) -> MarketData] :
        Commit(refresh_all_tiers(Registry, caller, now, mdf))

ProcessGracePeriods ==
    \E caller \in Accounts :
        Commit(process_grace_periods(Registry, caller, now))

ShiftActiveTier ==
    \E caller \in Accounts, new_tier \in ShiftTiers, reason \in Reasons :
        Commit(shift_active_tier(Registry, caller, now, new_tier, reason))

Next ==
    \/ GrantRole
    \/ RevokeRole
    \/ next_token_id <= MaxTokens /\ AddToken
    \/ UpdateToken
    \/ RemoveToken
    \/ UpdateTokenTier
    \/ EmergencyTierOverride
    \/ EmergencyTierOverrideToCalculated
    \/ ClearPendingTierChange
    \/ SetGracePeriod
    \/ RefreshAllTiers
    \/ ProcessGracePeriods
    \/ ShiftActiveTier
    \/ now < MaxTime /\ AdvanceTime

Spec == Init /\ [][Next]_vars

(***************************************************************************)
(* WideSpec: enough token ids for the 80% rule (MIN_TOKENS_FOR_TIER_SHIFT) *)
(* to act.  The k-th token added has the k-th contract address, the oracle *)
(* answers nothing, Tier2 data or Tier3 data when a token is added and     *)
(* Tier2 data afterwards, and the owner is the caller except in            *)
(* shift_active_tier.                                                      *)
(***************************************************************************)
WideContracts ==
    <<"token1", "token2", "token3", "token4", "token5", "token6", "token7">>
WideAddData == {NoData, Sample(500, 50), Sample(1000, 100)}
WideUpdateData == {Sample(500, 50)}
WideTokenIds == 1..WideMaxTokens
WideShiftTiers == {"Tier1"}

WideAddToken ==
    \E md \in WideAddData :
        Commit(add_token(Registry, Owner, now, WideContracts[next_token_id], "oracle", md))

WideUpdateToken ==
    \E token_id \in WideTokenIds, md \in WideUpdateData :
        Commit(update_token(Registry, Owner, now, token_id, 0, 0, md))

WideRemoveToken ==
    \E token_id \in WideTokenIds :
        Commit(remove_token(Registry, Owner, now, token_id))

WideSetGracePeriod ==
    Commit(set_grace_period(Registry, Owner, MIN_GRACE_PERIOD_MS))

WideRefreshAllTiers ==
    \E md \in WideUpdateData :
        Commit(refresh_all_tiers(Registry, Owner, now,
                                 [token_id \in 1..get_token_count(Registry) |-> md]))

WideProcessGracePeriods ==
    Commit(process_grace_periods(Registry, Owner, now))

WideShiftActiveTier ==
    \E caller \in Accounts, new_tier \in WideShiftTiers, reason \in Reasons :
        Commit(shift_active_tier(Registry, caller, now, new_tier, reason))

WideNext ==
    \/ next_token_id <= WideMaxTokens /\ WideAddToken
    \/ WideUpdateToken
    \/ WideRemoveToken
    \/ WideSetGracePeriod
    \/ WideRefreshAllTiers
    \/ WideProcessGracePeriods
    \/ WideShiftActiveTier
    \/ now < WideMaxTime /\ AdvanceTime

WideSpec == Init /\ [][WideNext]_vars

(***************************************************************************)
(* PortfolioSpec: the holdings of the Portfolio and its index value, the   *)
(* owner's calls made within one block.                                    *)
(***************************************************************************)
HeldTokenIds == 1..MaxHeldTokens
Amounts == {0, 1}
TargetWeights == {4000, 6000, 10001}
Prices == {NoQuote, 1}
Quotes == {[token_id \in HeldTokenIds |-> price] : price \in Prices}
HoldingsEntries ==
    {<<token_id, 1, weight>> : token_id \in HeldTokenIds, weight \in {4000, 6000}}
        \cup {<<1, 0, 4000>>, <<1, 1, 10001>>}
HoldingsData ==
    {<<>>} \cup {<<e>> : e \in HoldingsEntries}
           \cup {<<e, f>> : e \in HoldingsEntries, f \in HoldingsEntries}
AmountUpdates ==
    {<<>>} \cup {<<<<token_id, 2>>>> : token_id \in HeldTokenIds}
           \cup {<<<<1, 1>>, <<2, 1>>>>}
MaxTokensLimits == {0, 2}

EmergencyPause ==
    \E caller \in Accounts : PortfolioCommit(emergency_pause(Portfolio, caller))

ResumeOperations ==
    \E caller \in Accounts : PortfolioCommit(resume_operations(Portfolio, caller))

SetRegistryContract ==
    \E caller \in Accounts :
        PortfolioCommit(set_registry_contract(Portfolio, caller, "registry"))

AddTokenHolding ==
    \E caller \in {Owner}, quotes \in Quotes, token_id \in HeldTokenIds,
       amount \in Amounts, target_weight_bp \in TargetWeights :
        /\ Len(held_token_ids) < MaxHeldIds
        /\ PortfolioCommit(add_token_holding(Portfolio, caller, now, quotes,
                                          token_id, amount, target_weight_bp))

UpdateTokenHolding ==
    \E caller \in {Owner}, quotes \in Quotes, token_id \in HeldTokenIds,
       amount \in Amounts, target_weight_bp \in TargetWeights :
        PortfolioCommit(update_token_holding(Portfolio, caller, now, quotes,
                                             token_id, amount, target_weight_bp))

RemoveTokenHolding ==
    \E caller \in {Owner}, quotes \in Quotes, token_id \in HeldTokenIds :
        PortfolioCommit(remove_token_holding(Portfolio, caller, now, quotes, token_id))

AddMultipleHoldings ==
    \E caller \in {Owner}, holdings_data \in HoldingsData :
        /\ Len(held_token_ids) + Len(holdings_data) <= MaxHeldIds
        /\ PortfolioCommit(add_multiple_holdings(Portfolio, caller, now, holdings_data))

UpdateMultipleAmounts ==
    \E caller \in {Owner}, updates \in AmountUpdates :
        PortfolioCommit(update_multiple_amounts(Portfolio, caller, now, updates))

SetMaxTokens ==
    \E caller \in {Owner}, new_max_tokens \in MaxTokensLimits :
        PortfolioCommit(set_max_tokens(Portfolio, caller, new_max_tokens))

InitializeBasePortfolioValue ==
    \E caller \in {Owner}, quotes \in Quotes :
        PortfolioCommit(initialize_base_portfolio_value(Portfolio, caller, now, quotes))

UpdateIndexValue ==
    \E caller \in {Owner}, quotes \in Quotes :
        PortfolioCommit(update_index_value(Portfolio, caller, now, quotes))

RefreshIndexValue ==
    \E caller \in {Owner}, quotes \in Quotes :
        PortfolioCommit(refresh_index_value(Portfolio, caller, now, quotes))

SetIndexTracking ==
    \E caller \in {Owner}, quotes \in Quotes, enabled \in BOOLEAN :
        PortfolioCommit(set_index_tracking(Portfolio, caller, now, quotes, enabled))

EmergencyResetBaseValue ==
    \E caller \in {Owner}, quotes \in Quotes :
        PortfolioCommit(emergency_reset_base_value(Portfolio, caller, now, quotes))

PortfolioNext ==
    \/ EmergencyPause
    \/ ResumeOperations
    \/ SetRegistryContract
    \/ AddTokenHolding
    \/ UpdateTokenHolding
    \/ RemoveTokenHolding
    \/ AddMultipleHoldings
    \/ UpdateMultipleAmounts
    \/ SetMaxTokens
    \/ InitializeBasePortfolioValue
    \/ UpdateIndexValue
    \/ RefreshIndexValue
    \/ SetIndexTracking
    \/ EmergencyResetBaseValue

PortfolioSpec == Init /\ [][PortfolioNext]_vars

(***************************************************************************)
(* StakingSpec: staking, unstaking and claiming by one account, with       *)
(* block time advancing by whole unstaking periods of Tier4.               *)
(***************************************************************************)
StakeAmounts == {100}
UnstakeAmounts == {50, 100}
TierReplies == {"Tier4", "Tier3", CallFailed}
AllPushed == <<TRUE, TRUE>>
Env(tier, pull, push) == [tier |-> tier, pull |-> pull, push |-> push]
\* every transfer succeeds; only the tier read varies
FairEnvs == {Env(tier, TRUE, AllPushed) : tier \in TierReplies}
\* one transfer fails
FailingEnvs == {Env("Tier4", FALSE, AllPushed),
                Env("Tier4", TRUE, <<FALSE, TRUE>>),
                Env("Tier4", TRUE, <<TRUE, FALSE>>)}
Envs == FairEnvs \cup FailingEnvs
TimeSteps == {3}
Stakers == {"alice"}

StakeTokens ==
    \E caller \in Stakers, env \in Envs, amount \in StakeAmounts :
        /\ total_staked + amount <= MaxStaked
        /\ StakingCommit(stake(Staking, caller, now, env, amount))

RequestUnstake ==
    \E caller \in Stakers, amount \in UnstakeAmounts :
        /\ Len(requests_of(Staking, caller)) < MaxRequests
        /\ StakingCommit(request_unstake(Staking, caller, now, amount))

ClaimUnstaked ==
    \E caller \in Stakers, env \in Envs :
        StakingCommit(claim_unstaked(Staking, caller, now, env))

ClaimRewards ==
    \E caller \in Stakers, env \in Envs :
        StakingCommit(claim_rewards(Staking, caller, now, env))

Pause == \E caller \in Accounts : StakingCommit(pause(Staking, caller))

Unpause == \E caller \in Accounts : StakingCommit(unpause(Staking, caller))

StakingAdvanceTime ==
    \E step \in TimeSteps :
        /\ now + step <= StakingMaxTime
        /\ now' = now + step
        /\ UNCHANGED <<regVars, portVars, stakingVars, dexVars, oracleVars>>

StakingNext ==
    \/ StakeTokens
    \/ RequestUnstake
    \/ ClaimUnstaked
    \/ ClaimRewards
    \/ Pause
    \/ Unpause
    \/ StakingAdvanceTime

StakingSpec == Init /\ [][StakingNext]_vars

(***************************************************************************)
(* StakingAdminSpec: StakingSpec together with the owner's setters.        *)
(***************************************************************************)
NewFeeWallets == {"fees2"}
NewTokens == {"w3pi2"}
NewRegistries == {"registry2"}

SetFeeWallet ==
    \E caller \in Accounts, new_fee_wallet \in NewFeeWallets :
        StakingCommit(set_fee_wallet(Staking, caller, new_fee_wallet))

SetW3piToken ==
    \E caller \in Accounts, new_token \in NewTokens :
        StakingCommit(set_w3pi_token(Staking, caller, new_token))

SetRegistry ==
    \E caller \in Accounts, new_registry \in NewRegistries :
        StakingCommit(set_registry(Staking, caller, new_registry))

StakingAdminNext ==
    \/ StakeTokens
    \/ RequestUnstake
    \/ ClaimUnstaked
    \/ ClaimRewards
    \/ Pause
    \/ Unpause
    \/ SetFeeWallet
    \/ SetW3piToken
    \/ SetRegistry
    \/ StakingAdvanceTime

StakingAdminSpec == Init /\ [][StakingAdminNext]_vars

(***************************************************************************)
(* QueueSpec: one account staking and unstaking in small requests until    *)
(* its queue of unstaking requests is full.                                *)
(***************************************************************************)
QueueStakeAmounts == {100}
QueueUnstakeAmounts == {10}

QueueStake ==
    \E caller \in Stakers, amount \in QueueStakeAmounts :
        /\ total_staked + amount <= MaxStaked
        /\ StakingCommit(stake(Staking, caller, now, Env("Tier4", TRUE, AllPushed),
                               amount))

QueueRequestUnstake ==
    \E caller \in Stakers, amount \in QueueUnstakeAmounts :
        StakingCommit(request_unstake(Staking, caller, now, amount))

QueueClaimUnstaked ==
    \E caller \in Stakers :
        StakingCommit(claim_unstaked(Staking, caller, now,
                                     Env("Tier4", TRUE, AllPushed)))

QueueNext ==
    \/ QueueStake
    \/ QueueRequestUnstake
    \/ QueueClaimUnstaked
    \/ StakingAdvanceTime

QueueSpec == Init /\ [][QueueNext]_vars

(***************************************************************************)
(* DexSpec: the owner sets pools for a pair of tokens, in either order,    *)
(* and anyone swaps dot for usdc through them, so that the dot reserve of  *)
(* a pool only grows; swaps in the other direction are examined as calls   *)
(* made from the states reached.                                           *)
(***************************************************************************)
DexTokens == {"dot", "usdc"}
PoolPairs == {<<"dot", "usdc">>, <<"usdc", "dot">>}
PoolReserves ==
    {<<1000, 1000>>, <<1000, 500>>, <<1000, 0>>, <<1000000000, 1000000000>>}
SwapAmounts == {0, 100, 300}
SwapPaths == {<<"dot", "usdc">>, <<"usdc", "dot">>, <<"dot">>}

SetPool ==
    \E caller \in Accounts, pair \in PoolPairs, reserves \in PoolReserves :
        /\ Len(pool_keys) < MaxPoolKeys
        /\ DexCommit(set_pool(Dex, caller, pair[1], pair[2], reserves[1], reserves[2]))

\* the reserve of from in the pool a swap from from to to would use, 0 without one
ReserveOf(from, to) ==
    IF <<from, to>> \notin DOMAIN pools /\ <<to, from>> \notin DOMAIN pools THEN 0
    ELSE LET pool == pool_for(Dex, from, to)
         IN  IF pool.token_a = from THEN pool.reserve_a ELSE pool.reserve_b

Swap ==
    \E from \in {"dot"}, to \in DexTokens, amount \in SwapAmounts, path \in SwapPaths :
        /\ ReserveOf(from, to) + amount <= MaxReserveIn
        /\ DexCommit(swap(Dex, from, to, amount, path))

DexNext ==
    \/ SetPool
    \/ Swap

DexSpec == Init /\ [][DexNext]_vars

(***************************************************************************)
(* OracleSpec: the owner and an updater feed data for one token while      *)
(* block time advances by the minimum update interval or by more than the  *)
(* default staleness threshold.                                            *)
(***************************************************************************)
OracleTokens == {"dot"}
OraclePrices == {0, 100, 110, 200}
MarketCaps == {5}
MarketVolumes == {7}
StalenessThresholds == {0, 60, 3000000}
OracleTimeSteps == {60000, 3600001}

UpdateTokenData ==
    \E caller \in Accounts, token \in OracleTokens, price \in OraclePrices,
       market_cap \in MarketCaps, volume \in MarketVolumes :
        OracleCommit(update_token_data(Oracle, caller, now, token, price,
                                       market_cap, volume))

UpdateMarketData ==
    \E caller \in Accounts, token \in OracleTokens,
       market_cap \in MarketCaps, volume \in MarketVolumes :
        OracleCommit(update_market_data(Oracle, caller, now, token, market_cap, volume))

AddUpdater ==
    \E caller \in Accounts, updater \in Accounts :
        OracleCommit(add_updater(Oracle, caller, updater))

SetStalenessThreshold ==
    \E caller \in Accounts, staleness_threshold \in StalenessThresholds :
        OracleCommit(set_staleness_threshold(Oracle, caller, staleness_threshold))

PauseUpdates ==
    \E caller \in Accounts : OracleCommit(pause_updates(Oracle, caller))

ResumeUpdates ==
    \E caller \in Accounts : OracleCommit(resume_updates(Oracle, caller))

OracleAdvanceTime ==
    \E step \in OracleTimeSteps :
        /\ now + step <= OracleMaxTime
        /\ now' = now + step
        /\ UNCHANGED <<regVars, portVars, stakingVars, dexVars, oracleVars>>

OracleNext ==
    \/ UpdateTokenData
    \/ UpdateMarketData
    \/ AddUpdater
    \/ SetStalenessThreshold
    \/ PauseUpdates
    \/ ResumeUpdates
    \/ OracleAdvanceTime

OracleSpec == Init /\ [][OracleNext]_vars

(***************************************************************************)
(* Properties of the Registry.                                             *)
(***************************************************************************)
RECURSIVE SumOver(_, _)
SumOver(f, S) ==
    IF S = {} THEN 0
    ELSE LET x == CHOOSE y \in S : TRUE IN f[x] + SumOver(f, S \ {x})

Rank(tier) == CHOOSE i \in 1..Len(TierList) : TierList[i] = tier

\* the tokens currently registered (added and not removed) with applied tier t
RegisteredAt(tier) == {id \in DOMAIN tokens : tokens[id].tier = tier}

\* C1: the cached tier_distribution counts over the five tiers add up to
\* get_token_count().
C1_DistributionSumsToTokenCount ==
    SumOver(tier_distribution, Tier) = get_token_count(Registry)

\* C2: for every tier t, tier_distribution[t] is the number of currently
\* registered tokens whose applied tier is t, which is the length of
\* get_tokens_by_tier(t).
C2_CacheCountsRegisteredTokens ==
    \A tier \in Tier :
        /\ tier_distribution[tier] = Cardinality(RegisteredAt(tier))
        /\ tier_distribution[tier] = Len(get_tokens_by_tier(Registry, tier))

\* two registered tokens in different tiers, one of them with an applied
\* tier that was changed after it was added
C2_Witness ==
    \E a, b \in DOMAIN tokens :
        /\ tokens[a].tier # tokens[b].tier
        /\ tokens[a].pending_tier_change = Nil
        /\ tokens[a].tier_change_timestamp # NoTime
        /\ tier_distribution[tokens[a].tier] = 1

\* the block times at which process_grace_periods is tried for a change
\* pending since t0
ProbeTimes(t0) ==
    {t \in {now, now + 1, t0 + grace_period_ms - 1, t0 + grace_period_ms,
            t0 + grace_period_ms + 1} : t >= now}

\* the call, if it succeeded, left the calculated tier pending since now on
\* the token and changed neither its applied tier nor the cache
C4_Stashed(call, token_id, calculated) ==
    call.res = "Ok" =>
      /\ call.self.tokens[token_id].pending_tier_change = calculated
      /\ call.self.tokens[token_id].tier_change_timestamp = now
      /\ call.self.tokens[token_id].tier = tokens[token_id].tier
      /\ call.self.tier_distribution = tier_distribution

\* C4: a recalculation at time now that yields a tier other than the applied
\* one leaves pending_tier_change = that tier and tier_change_timestamp = now
\* and changes neither the applied tier nor the cache; for a change pending
\* since t0, process_grace_periods before t0 + grace_period_ms keeps the
\* applied tier, and at or after t0 + grace_period_ms applies the pending tier
\* and clears it.
C4_GracePeriodRoundTrip ==
    /\ \A token_id \in DOMAIN tokens, md \in MarketData, caller \in Accounts :
         LET calculated == calculate_token_tier_internal(md)
             mdf == [id \in 1..get_token_count(Registry) |->
                        IF id = token_id THEN md ELSE NoData]
         IN  calculated # Nil /\ calculated # tokens[token_id].tier
             => /\ C4_Stashed(update_token(Registry, caller, now, token_id, 7, 100, md),
                              token_id, calculated)
                /\ C4_Stashed(update_token_tier(Registry, caller, now, token_id, md),
                              token_id, calculated)
                /\ C4_Stashed(refresh_all_tiers(Registry, caller, now, mdf),
                              token_id, calculated)
    /\ \A token_id \in DOMAIN tokens, caller \in Accounts :
         tokens[token_id].pending_tier_change # Nil
         => \A t \in ProbeTimes(tokens[token_id].tier_change_timestamp) :
              LET call == process_grace_periods(Registry, caller, t)
                  after == call.self.tokens[token_id]
              IN  call.res = "Ok" =>
                    IF t < tokens[token_id].tier_change_timestamp + grace_period_ms
                    THEN after = tokens[token_id]
                    ELSE /\ after.tier = tokens[token_id].pending_tier_change
                         /\ after.pending_tier_change = Nil

\* a change is pending on a token and its grace period has run out
C4_Witness ==
    \E token_id \in DOMAIN tokens :
        /\ tokens[token_id].pending_tier_change # Nil
        /\ tokens[token_id].tier_change_timestamp # NoTime
        /\ now >= tokens[token_id].tier_change_timestamp + grace_period_ms
        /\ process_grace_periods(Registry, Owner, now).self.tokens[token_id].tier
               # tokens[token_id].tier

\* C5: a second process_grace_periods at the same block time returns 0 and
\* leaves the storage as the first call left it.
C5_ProcessGracePeriodsIdempotent ==
    \A caller \in Accounts :
        LET first == process_grace_periods(Registry, caller, now)
            second == process_grace_periods(first.self, caller, now)
        IN  first.res = "Ok" =>
              /\ second.res = "Ok"
              /\ second.ret = 0
              /\ second.self = first.self

\* the first call applies a pending change
C5_Witness ==
    /\ process_grace_periods(Registry, Owner, now).res = "Ok"
    /\ process_grace_periods(Registry, Owner, now).ret > 0

\* the tiers strictly above the active tier whose cached count reaches 80%
\* of total_tokens
QualifyingTiers(total_tokens) ==
    IF total_tokens = 0 THEN {}
    ELSE {tier \in Tier :
            /\ Rank(tier) > Rank(active_tier)
            /\ (tier_distribution[tier] * 100) \div total_tokens
                   >= TIER_SHIFT_THRESHOLD_PERCENT}

LowestQualifying(total_tokens) ==
    IF QualifyingTiers(total_tokens) = {} THEN Nil
    ELSE CHOOSE tier \in QualifyingTiers(total_tokens) :
             \A other \in QualifyingTiers(total_tokens) : Rank(tier) <= Rank(other)

\* C6 as stated: should_shift_tier() is the lowest tier strictly above the
\* active tier whose count c has (c * 100) div total_tokens >= 80, and None
\* when there is none.
C6_LowestQualifyingTier ==
    should_shift_tier(Registry) = LowestQualifying(get_token_count(Registry))

\* C6 as amended: that holds once get_token_count() is at least 5, and below
\* that should_shift_tier() is None; with 5 token ids and active tier Tier1 it
\* is Tier2 when 4 are at Tier2 and None when 3 are.
C6_LowestQualifyingTierFromFive ==
    LET total_tokens == get_token_count(Registry)
    IN  /\ total_tokens >= MIN_TOKENS_FOR_TIER_SHIFT
            => should_shift_tier(Registry) = LowestQualifying(total_tokens)
        /\ total_tokens < MIN_TOKENS_FOR_TIER_SHIFT
            => should_shift_tier(Registry) = Nil
        /\ total_tokens = 5 /\ active_tier = "Tier1" /\ tier_distribution["Tier2"] = 4
            => should_shift_tier(Registry) = "Tier2"
        /\ total_tokens = 5 /\ active_tier = "Tier1" /\ tier_distribution["Tier2"] = 3
            => should_shift_tier(Registry) = Nil

\* 5 token ids, active tier Tier1, 4 tokens at Tier2: the rule names Tier2
C6_Witness ==
    /\ get_token_count(Registry) = 5
    /\ active_tier = "Tier1"
    /\ tier_distribution["Tier2"] = 4
    /\ should_shift_tier(Registry) = "Tier2"

\* C7: while fewer than 5 tokens are registered, should_shift_tier() is None
\* and removing or adding a token shifts no active tier.
C7_RuleDisabledBelowFive ==
    /\ Cardinality(DOMAIN tokens) < MIN_TOKENS_FOR_TIER_SHIFT
           => should_shift_tier(Registry) = Nil
    /\ \A token_id \in DOMAIN tokens :
         LET call == remove_token(Registry, Owner, now, token_id)
         IN  Cardinality(DOMAIN call.self.tokens) < MIN_TOKENS_FOR_TIER_SHIFT
                 => call.self.active_tier = active_tier
    /\ \A md \in WideAddData :
         LET call == add_token(Registry, Owner, now,
                               WideContracts[next_token_id], "oracle", md)
         IN  Cardinality(DOMAIN call.self.tokens) < MIN_TOKENS_FOR_TIER_SHIFT
                 => call.self.active_tier = active_tier

\* C8: a call of shift_active_tier by an account that is not the owner changes
\* active_tier only to the tier should_shift_tier() names.
C8_OnlyOwnerOrRuleShifts ==
    \A caller \in Accounts \ {Owner}, new_tier \in Tier, reason \in Reasons :
        LET call == shift_active_tier(Registry, caller, now, new_tier, reason)
        IN  call.self.active_tier # active_tier
                => call.self.active_tier = should_shift_tier(Registry)

\* C9: right after a successful add_token, update_token, remove_token,
\* refresh_all_tiers or process_grace_periods, should_shift_tier() is None.
C9_NoShiftLeftToDo ==
    LET calls ==
            {add_token(Registry, Owner, now, WideContracts[next_token_id], "oracle", md) :
                md \in WideAddData}
            \cup {update_token(Registry, Owner, now, token_id, 0, 0, md) :
                     token_id \in WideTokenIds, md \in WideUpdateData}
            \cup {remove_token(Registry, Owner, now, token_id) :
                     token_id \in WideTokenIds}
            \cup {refresh_all_tiers(Registry, Owner, now,
                     [token_id \in 1..get_token_count(Registry) |-> md]) :
                     md \in WideUpdateData}
            \cup {process_grace_periods(Registry, Owner, now)}
    IN  \A call \in calls :
            call.res = "Ok" => should_shift_tier(call.self) = Nil

\* C10: after a successful emergency_tier_override(token, t) the token's
\* applied tier is t and it has no pending change.
C10_OverrideAppliesAndClears ==
    \A token_id \in DOMAIN tokens, new_tier \in Tier :
        LET call == emergency_tier_override(Registry, Owner, now, token_id, new_tier)
        IN  call.res = "Ok" =>
              /\ call.self.tokens[token_id].tier = new_tier
              /\ call.self.tokens[token_id].pending_tier_change = Nil

\* balance and weight offered to update_token: in range, at the limit, above it
C11_Updates == {<<5, 3000>>, <<7, 10000>>, <<7, 10001>>}

\* C11: update_token of a registered token with weight <= 10000 succeeds and
\* stores balance and weight; when the oracle read fails nothing else of the
\* Registry changes (applied tier, pending change, timestamp, cache).  With a
\* weight above 10000 or an unknown id it fails and changes nothing.
C11_UpdateSurvivesOracleFailure ==
    /\ \A token_id \in DOMAIN tokens, u \in C11_Updates, md \in MarketData :
         LET call == update_token(Registry, Owner, now, token_id, u[1], u[2], md)
         IN  IF u[2] <= 10000
             THEN /\ call.res = "Ok"
                  /\ call.self.tokens[token_id].balance = u[1]
                  /\ call.self.tokens[token_id].weight_investment = u[2]
                  /\ ~md.ok =>
                        call.self = [Registry EXCEPT
                                       !.tokens[token_id].balance = u[1],
                                       !.tokens[token_id].weight_investment = u[2]]
             ELSE call.res # "Ok" /\ call.self = Registry
    /\ \A token_id \in (1..(MaxTokens + 1)) \ DOMAIN tokens,
          u \in C11_Updates, md \in MarketData :
         LET call == update_token(Registry, Owner, now, token_id, u[1], u[2], md)
         IN  call.res # "Ok" /\ call.self = Registry

\* a token that never had market data took an update of balance and weight
C11_Witness ==
    \E token_id \in DOMAIN tokens :
        /\ tokens[token_id].tier = "None"
        /\ tokens[token_id].pending_tier_change = Nil
        /\ tokens[token_id].tier_change_timestamp = NoTime
        /\ tokens[token_id].balance = 5
        /\ tokens[token_id].weight_investment = 3000

HoldingsWeight(h) ==
    SumOver([token_id \in DOMAIN h |-> h[token_id].target_weight_bp], DOMAIN h)

OfferedWeights == TargetWeights \cup {1, 10000}

\* the call was rejected with an error and without a write
C3_Rejected(call) == call.res # "Ok" /\ call.self = Portfolio

\* C3: the target weights of the holdings add up to at most 10000; an
\* add_token_holding, update_token_holding or add_multiple_holdings that
\* would bring the sum above 10000 is rejected and leaves the storage as it
\* was, and one that succeeds stores the weight it was given.
C3_TargetWeightsWithinTotal ==
    /\ HoldingsWeight(holdings) <= MAX_TARGET_WEIGHT_BP
    /\ \A caller \in Accounts, quotes \in Quotes, token_id \in HeldTokenIds,
          amount \in Amounts, weight \in OfferedWeights :
         LET added == add_token_holding(Portfolio, caller, now, quotes,
                                        token_id, amount, weight)
             updated == update_token_holding(Portfolio, caller, now, quotes,
                                             token_id, amount, weight)
         IN  /\ token_id \notin DOMAIN holdings
                /\ HoldingsWeight(holdings) + weight > MAX_TARGET_WEIGHT_BP
                    => C3_Rejected(added)
             /\ added.res = "Ok"
                    => /\ added.self.holdings[token_id].target_weight_bp = weight
                       /\ HoldingsWeight(added.self.holdings)
                              = HoldingsWeight(holdings) + weight
             /\ token_id \in DOMAIN holdings
                /\ HoldingsWeight(holdings) - holdings[token_id].target_weight_bp
                       + weight > MAX_TARGET_WEIGHT_BP
                    => C3_Rejected(updated)
             /\ updated.res = "Ok"
                    => updated.self.holdings[token_id].target_weight_bp = weight
    /\ \A caller \in Accounts, holdings_data \in HoldingsData :
         LET added == add_multiple_holdings(Portfolio, caller, now, holdings_data)
             wanted == insert_holdings_data(Portfolio, now, holdings_data).holdings
         IN  /\ HoldingsWeight(wanted) > MAX_TARGET_WEIGHT_BP => C3_Rejected(added)
             /\ added.res = "Ok" => added.self.holdings = wanted

\* two holdings whose weights add up to exactly 10000, so that any further
\* weight is one too many
C3_Witness ==
    /\ ~emergency_paused
    /\ Cardinality(DOMAIN holdings) = 2
    /\ HoldingsWeight(holdings) = MAX_TARGET_WEIGHT_BP
    /\ \A weight \in OfferedWeights :
         update_token_holding(Portfolio, Owner, now, [id \in HeldTokenIds |-> 1], 1,
             holdings[1].amount, holdings[1].target_weight_bp + weight).res # "Ok"

(***************************************************************************)
(* Properties of the Staking contract.                                     *)
(***************************************************************************)
\* the accounts whose calls are examined: the staker and one without a stake
StakingCallers == Stakers \cup {Owner}

\* the block times at which a call is tried: now and one unstaking period of
\* Tier4 or of Tier3 later
StakingProbeTimes ==
    {now, now + TIER4_UNSTAKING_PERIOD, now + TIER3_UNSTAKING_PERIOD}

\* every call to another contract succeeds, the tier read answers tier
Fair(tier) == Env(tier, TRUE, AllPushed)

\* positions of the unclaimed requests that are available at t
Matured(requests, t) ==
    {i \in 1..Len(requests) :
        ~requests[i].claimed /\ requests[i].available_at <= t}

\* C13: claim_unstaked fails and transfers nothing while no unclaimed request
\* of the caller has reached its available_at; otherwise (contract not
\* paused, transfer succeeding) it transfers exactly the sum of the caller's
\* unclaimed requests with available_at <= now, marks exactly those claimed
\* and changes nothing else; repeated right away it fails and changes nothing.
C13_ClaimPaysMaturedOnce ==
    \A caller \in StakingCallers, t \in StakingProbeTimes :
        LET requests == requests_of(Staking, caller)
            matured == Matured(requests, t)
            call == claim_unstaked(Staking, caller, t, Fair("Tier4"))
            after == committed(Staking, call)
            again == claim_unstaked(after, caller, t, Fair("Tier4"))
        IN  IF matured = {} \/ paused
            THEN call.res # "Ok" /\ call.ret = <<>> /\ after = Staking
            ELSE /\ call.res = "Ok"
                 /\ call.ret =
                      <<Transfer(StakingAccount, caller,
                                 SumOver([i \in 1..Len(requests) |-> requests[i].amount],
                                         matured))>>
                 /\ after =
                      [Staking EXCEPT !.unstaking_requests[caller] =
                          [i \in 1..Len(requests) |->
                              IF i \in matured
                              THEN [requests[i] EXCEPT !.claimed = TRUE]
                              ELSE requests[i]]]
                 /\ again.res # "Ok"
                 /\ again.ret = <<>>
                 /\ committed(after, again) = after

\* one request of the staker was paid, another one is not yet available
C13_Witness ==
    \E caller \in DOMAIN unstaking_requests :
        \E i, j \in 1..Len(unstaking_requests[caller]) :
            /\ unstaking_requests[caller][i].claimed
            /\ ~unstaking_requests[caller][j].claimed
            /\ unstaking_requests[caller][j].available_at > now

\* C14: over one year a stake earns 5% gross, of which 10% is the fee: a
\* stake of 100_000_000 base units (1000 units of the model) held for
\* SECONDS_PER_YEAR yields gross 5_000_000 (50), fee 500_000 (5) and net
\* 4_500_000 (45); and so for every stored stake, proportionally.
C14_FivePercentPerYear ==
    /\ LET rewards == calculate_rewards_with_fee(
                          StakeInfo(1000, 0, 0, TIER1_UNSTAKING_PERIOD, "Tier1"),
                          SECONDS_PER_YEAR)
       IN  /\ rewards.net_reward + rewards.fee_amount = 50
           /\ rewards.fee_amount = 5
           /\ rewards.net_reward = 45
    /\ \A account \in DOMAIN stakes :
         LET rewards == calculate_rewards_with_fee(
                            stakes[account],
                            stakes[account].last_claim + SECONDS_PER_YEAR)
             gross == (stakes[account].amount * 5) \div 100
         IN  /\ rewards.net_reward + rewards.fee_amount = gross
             /\ rewards.fee_amount = (gross * 10) \div 100

\* C15: a stake whose transfer_from fails returns an error and leaves the
\* caller's stake record, total_staked and total_collected_fees as they were.
C15_FailedPullLeavesStake ==
    \A caller \in StakingCallers, t \in StakingProbeTimes,
       amount \in {1, 100}, tier \in Tier :
        LET call == stake(Staking, caller, t, Env(tier, FALSE, AllPushed), amount)
            after == committed(Staking, call)
        IN  /\ call.res # "Ok"
            /\ after.stakes = stakes
            /\ after.total_staked = total_staked
            /\ after.total_collected_fees = total_collected_fees

\* the staker has a fee pending, which stake books before it asks for the
\* caller's tokens
C15_Witness ==
    /\ ~paused
    /\ \E caller \in DOMAIN stakes :
         /\ calculate_rewards_with_fee(stakes[caller], now).fee_amount > 0
         /\ stake(Staking, caller, now, Env("Tier4", FALSE, AllPushed), 100).res
                = "TransferFailed"
         /\ stake(Staking, caller, now, Env("Tier4", FALSE, AllPushed), 100).self.stakes
                # stakes

\* the call gave the lock back and was not refused for a held lock
C16_Released(call) ==
    /\ ~call.self.reentrancy_guard
    /\ ~committed(Staking, call).reentrancy_guard
    /\ call.res # "ReentrantCall"

C17_Amounts(caller) ==
    {0, 50, 100}
        \cup (IF caller \in DOMAIN stakes
              THEN {stakes[caller].amount, stakes[caller].amount + 1}
              ELSE {})

\* C17: a successful request_unstake(a) on a stake of amount A >= a with
\* stored period P leaves A - a on the stake (no record when A - a = 0, so
\* no stored stake has amount 0), lowers total_staked by a and appends the
\* unclaimed request (a, now, now + P); with a = 0, no stake or a > A the
\* call fails and changes nothing.
C17_RequestUnstakeMovesStake ==
    /\ \A account \in DOMAIN stakes : stakes[account].amount > 0
    /\ \A caller \in StakingCallers :
         \A amount \in C17_Amounts(caller) :
           LET call == request_unstake(Staking, caller, now, amount)
               after == committed(Staking, call)
           IN  IF \/ amount = 0
                  \/ caller \notin DOMAIN stakes
                  \/ amount > stakes[caller].amount
               THEN call.res # "Ok" /\ after = Staking
               ELSE call.res = "Ok" =>
                      /\ IF stakes[caller].amount = amount
                         THEN caller \notin DOMAIN after.stakes
                         ELSE after.stakes =
                                [stakes EXCEPT ![caller].amount = @ - amount]
                      /\ after.total_staked = total_staked - amount
                      /\ after.unstaking_requests[caller] =
                           Append(requests_of(Staking, caller),
                                  UnstakingRequest(amount, now,
                                      now + stakes[caller].unstaking_period,
                                      FALSE))

\* C18: no queue of unstaking requests is longer than 10; with 10 entries
\* in the caller's queue, claimed or not, request_unstake fails and changes
\* nothing; a request_unstake that succeeds appends to the queue, and
\* claim_unstaked keeps every entry in its place, claimed ones as they are.
C18_QueueNeverExceedsTen ==
    /\ \A account \in DOMAIN unstaking_requests :
         Len(unstaking_requests[account]) <= 10
    /\ \A caller \in StakingCallers, amount \in {1, 10} :
         LET requests == requests_of(Staking, caller)
             call == request_unstake(Staking, caller, now, amount)
             after == committed(Staking, call)
         IN  /\ Len(requests) = 10 => call.res # "Ok" /\ after = Staking
             /\ call.res = "Ok" =>
                  /\ Len(requests_of(after, caller)) = Len(requests) + 1
                  /\ SubSeq(requests_of(after, caller), 1, Len(requests)) = requests
    /\ \A caller \in StakingCallers, t \in StakingProbeTimes :
         LET requests == requests_of(Staking, caller)
             call == claim_unstaked(Staking, caller, t, Fair("Tier4"))
             after == committed(Staking, call)
         IN  /\ Len(requests_of(after, caller)) = Len(requests)
             /\ \A i \in 1..Len(requests) :
                  /\ requests[i].claimed => requests_of(after, caller)[i] = requests[i]
                  /\ requests_of(after, caller)[i].amount = requests[i].amount

\* the queue is full of claimed requests and the staker has enough staked
\* for another request
C18_Witness ==
    \E caller \in DOMAIN stakes :
        /\ ~paused
        /\ stakes[caller].amount >= 10
        /\ Len(requests_of(Staking, caller)) = 10
        /\ \A i \in 1..10 : requests_of(Staking, caller)[i].claimed
        /\ request_unstake(Staking, caller, now, 10).res = "InvalidParameters"

\* the unstaking period, in days, that goes with the tier the Registry names
C19_Period(tier) ==
    CASE tier = "Tier1" -> 14
      [] tier = "Tier2" -> 10
      [] tier = "Tier3" -> 7
      [] tier = "Tier4" -> 3
      [] tier = "None" -> 14

\* the transfer of a fee to the fee wallet, when there is a fee
C19_FeeTransfer(fee_amount) ==
    IF fee_amount > 0
    THEN <<Transfer(StakingAccount, fee_wallet, fee_amount)>>
    ELSE <<>>

\* C19: a successful stake(d) on a stake of amount A with pending net reward
\* r and fee f transfers f to the fee wallet (and d from the caller), sets
\* the amount to A + d + r and last_claim to now, keeps staked_at, and sets
\* unstaking_period and tier_at_stake to those of the tier the Registry
\* answers; on an unpaused contract with succeeding calls it does succeed.
C19_TopUpCompoundsAndRestamps ==
    \A caller \in DOMAIN stakes, t \in StakingProbeTimes,
       tier \in Tier, d \in {1, 100} :
        LET old == stakes[caller]
            rewards == calculate_rewards_with_fee(old, t)
            call == stake(Staking, caller, t, Fair(tier), d)
            after == committed(Staking, call)
        IN  /\ ~paused => call.res = "Ok"
            /\ call.res = "Ok" =>
                 /\ after.stakes[caller] =
                      StakeInfo(old.amount + d + rewards.net_reward,
                                old.staked_at, t, C19_Period(tier), tier)
                 /\ call.ret = C19_FeeTransfer(rewards.fee_amount)
                                  \o <<Transfer(caller, StakingAccount, d)>>

\* a stake was topped up after rewards had accrued
C19_Witness ==
    \E caller \in DOMAIN stakes :
        /\ stakes[caller].staked_at < stakes[caller].last_claim
        /\ stakes[caller].amount > 200
        /\ stakes[caller].tier_at_stake = "Tier4"
        /\ stakes[caller].unstaking_period = 3
        /\ total_collected_fees > 0

\* C20: a successful claim_rewards transfers the net reward to the caller
\* and the fee to the fee wallet, sets last_claim to now and leaves the
\* amount of the stake (and all else but total_collected_fees) as it was;
\* without a stake or with a net reward of 0 it fails and changes nothing,
\* and so does a second claim_rewards at the same block time.
C20_ClaimRewardsPaysOut ==
    \A caller \in StakingCallers, t \in StakingProbeTimes :
        LET rewards == IF caller \in DOMAIN stakes
                       THEN calculate_rewards_with_fee(stakes[caller], t)
                       ELSE [net_reward |-> 0, fee_amount |-> 0]
            call == claim_rewards(Staking, caller, t, Fair("Tier4"))
            after == committed(Staking, call)
            again == claim_rewards(after, caller, t, Fair("Tier4"))
        IN  IF rewards.net_reward = 0 \/ paused
            THEN call.res # "Ok" /\ call.ret = <<>> /\ after = Staking
            ELSE /\ call.res = "Ok"
                 /\ call.ret = <<Transfer(StakingAccount, caller, rewards.net_reward)>>
                                  \o C19_FeeTransfer(rewards.fee_amount)
                 /\ after = [Staking EXCEPT
                               !.stakes[caller].last_claim = t,
                               !.total_collected_fees = @ + rewards.fee_amount]
                 /\ again.res # "Ok"
                 /\ committed(after, again) = after

\* rewards were claimed on a stake that was never topped up
C20_Witness ==
    \E caller \in DOMAIN stakes :
        /\ stakes[caller].staked_at < stakes[caller].last_claim
        /\ stakes[caller].amount = 100
        /\ total_collected_fees > 0
        /\ total_staked = 100

(***************************************************************************)
(* Properties of the Portfolio's index value.                              *)
(***************************************************************************)
\* a block time later than the one of the last write
Later == now + 1

\* the calls of every message other than emergency_reset_base_value
C21_OtherCalls ==
    {emergency_pause(Portfolio, caller) : caller \in Accounts}
    \cup {resume_operations(Portfolio, caller) : caller \in Accounts}
    \cup {set_registry_contract(Portfolio, caller, "registry") : caller \in Accounts}
    \cup {add_token_holding(Portfolio, caller, Later, quotes, token_id, amount, weight) :
            caller \in Accounts, quotes \in Quotes, token_id \in HeldTokenIds,
            amount \in Amounts, weight \in TargetWeights}
    \cup {update_token_holding(Portfolio, caller, Later, quotes, token_id, amount, weight) :
            caller \in Accounts, quotes \in Quotes, token_id \in HeldTokenIds,
            amount \in Amounts, weight \in TargetWeights}
    \cup {remove_token_holding(Portfolio, caller, Later, quotes, token_id) :
            caller \in Accounts, quotes \in Quotes, token_id \in HeldTokenIds}
    \cup {add_multiple_holdings(Portfolio, caller, Later, holdings_data) :
            caller \in Accounts, holdings_data \in HoldingsData}
    \cup {update_multiple_amounts(Portfolio, caller, Later, updates) :
            caller \in Accounts, updates \in AmountUpdates}
    \cup {set_max_tokens(Portfolio, caller, new_max_tokens) :
            caller \in Accounts, new_max_tokens \in MaxTokensLimits}
    \cup {initialize_base_portfolio_value(Portfolio, caller, Later, quotes) :
            caller \in Accounts, quotes \in Quotes}
    \cup {update_index_value(Portfolio, caller, Later, quotes) :
            caller \in Accounts, quotes \in Quotes}
    \cup {set_index_tracking(Portfolio, caller, Later, quotes, enabled) :
            caller \in Accounts, quotes \in Quotes, enabled \in BOOLEAN}

RecomputeFails(after, quotes) ==
    /\ after.index_tracking_enabled
    /\ calculate_current_index_value(after, quotes).res # "Ok"

\* the cached index value and its timestamp are the ones of the current state
CacheKept(after) ==
    /\ after.current_index_value = current_index_value
    /\ after.last_index_update = last_index_update

\* C22: an add_token_holding, update_token_holding or remove_token_holding
\* that passes the message's own validation returns Ok and stores the change
\* of the holding even when the recompute of the index value fails; in that
\* case current_index_value and last_index_update stay as they were.
C22_MutationSurvivesFailedRecompute ==
    \A caller \in Accounts, quotes \in Quotes, token_id \in HeldTokenIds,
       amount \in Amounts, weight \in TargetWeights :
        LET permitted == ensure_owner(caller) /\ ~emergency_paused
            held == token_id \in DOMAIN holdings
            total == calculate_total_target_weight(Portfolio)
            added == add_token_holding(Portfolio, caller, Later, quotes,
                                       token_id, amount, weight)
            updated == update_token_holding(Portfolio, caller, Later, quotes,
                                            token_id, amount, weight)
            removed == remove_token_holding(Portfolio, caller, Later, quotes, token_id)
        IN  /\ permitted /\ ~held /\ amount # 0 /\ total_tokens_held < max_tokens
               /\ total + weight <= MAX_TARGET_WEIGHT_BP
                   => /\ added.res = "Ok"
                      /\ added.self.holdings
                             = insert(holdings, token_id, TokenHolding(amount, weight, Later))
                      /\ added.self.total_tokens_held = total_tokens_held + 1
                      /\ RecomputeFails(added.self, quotes) => CacheKept(added.self)
            /\ permitted /\ held /\ weight <= MAX_TARGET_WEIGHT_BP
               /\ total - holdings[token_id].target_weight_bp + weight
                      <= MAX_TARGET_WEIGHT_BP
                   => /\ updated.res = "Ok"
                      /\ updated.self.holdings[token_id].amount = amount
                      /\ updated.self.holdings[token_id].target_weight_bp = weight
                      /\ RecomputeFails(updated.self, quotes) => CacheKept(updated.self)
            /\ permitted /\ held
                   => /\ removed.res = "Ok"
                      /\ removed.self.holdings = remove(holdings, token_id)
                      /\ RecomputeFails(removed.self, quotes) => CacheKept(removed.self)

\* the index is tracked against a baseline, and a holding is added, another
\* updated and removed while the Registry answers for no token
C22_Witness ==
    /\ index_tracking_enabled /\ base_portfolio_value # 0 /\ ~emergency_paused
    /\ DOMAIN holdings = {1}
    /\ LET quotes == [token_id \in HeldTokenIds |-> NoQuote]
           added == add_token_holding(Portfolio, Owner, Later, quotes, 2, 1, 4000)
           updated == update_token_holding(Portfolio, Owner, Later, quotes, 1, 1, 4000)
       IN  /\ added.res = "Ok" /\ RecomputeFails(added.self, quotes)
           /\ updated.res = "Ok" /\ RecomputeFails(updated.self, quotes)

\* prices the Registry may answer with: none, zero, a small one, one that
\* takes value * index_base_value out of range, and one whose product with an
\* amount of 2 is out of range
BigPrice == U128_MAX \div 2 + 1
ValuationPrices == {NoQuote, 0, 3, 3000, 30000000, BigPrice}
ValuationQuotes ==
    {quotes \in [HeldTokenIds -> ValuationPrices] :
        Cardinality({token_id \in HeldTokenIds : quotes[token_id] >= 30000000}) <= 1}

\* the Registry answered for the token and amount * price is in range
Priced(quotes, token_id) ==
    /\ call_registry_get_token_data(Portfolio, quotes, token_id) # NoQuote
    /\ checked_mul(holdings[token_id].amount, quotes[token_id]) # Overflow

\* amount * price of a priced holding, the amount alone of any other
ValueOrAmount(quotes) ==
    [token_id \in DOMAIN holdings |->
        IF Priced(quotes, token_id)
        THEN holdings[token_id].amount * quotes[token_id]
        ELSE holdings[token_id].amount]

\* held_token_ids lists every holding once and total_tokens_held counts them
ListedOnce ==
    /\ Len(held_token_ids) = Cardinality(DOMAIN holdings)
    /\ total_tokens_held = Len(held_token_ids)
    /\ \A token_id \in DOMAIN holdings :
           \E i \in 1..Len(held_token_ids) : held_token_ids[i] = token_id

\* C23: calculate_total_portfolio_value returns usdc_balance plus, for each
\* holding, amount * price when the Registry's price is available and the
\* product is in range, and the amount alone when the Registry call failed or
\* the product overflowed; it returns an error when something is held and no
\* holding was priced.  Stated for the states in which every holding is
\* listed once, where the loop over held_token_ids visits each holding once.
C23_ValueWithAmountFallback ==
    ListedOnce =>
    \A quotes \in ValuationQuotes :
        LET call == calculate_total_portfolio_value(Portfolio, quotes)
        IN  IF holdings # <<>> /\ \A token_id \in DOMAIN holdings : ~Priced(quotes, token_id)
            THEN call.res # "Ok"
            ELSE /\ call.res = "Ok"
                 /\ call.ret = usdc_balance
                                   + SumOver(ValueOrAmount(quotes), DOMAIN holdings)

\* what calculate_current_index_value returns in the current state: the
\* index base value without tracking or baseline, else the floor of
\* value * index_base_value / base_portfolio_value, or an error when the
\* product is out of range
C24_Formula(quotes) ==
    LET value == calculate_total_portfolio_value(Portfolio, quotes)
        call == calculate_current_index_value(Portfolio, quotes)
    IN  /\ index_tracking_enabled /\ base_portfolio_value # 0 /\ value.res = "Ok"
            => IF value.ret > U128_MAX \div INDEX_BASE_VALUE
               THEN call.res # "Ok"
               ELSE /\ call.res = "Ok"
                    /\ call.ret = (value.ret * INDEX_BASE_VALUE) \div base_portfolio_value
        /\ ~index_tracking_enabled \/ base_portfolio_value = 0
            => call.res = "Ok" /\ call.ret = INDEX_BASE_VALUE

\* C24 as stated: calculate_current_index_value follows the formula above,
\* and right after a successful initialize_base_portfolio_value, nothing
\* else having changed, it returns exactly index_base_value.
C24_IndexValueFormula ==
    \A quotes \in ValuationQuotes :
        /\ C24_Formula(quotes)
        /\ LET initialized == initialize_base_portfolio_value(Portfolio, Owner, Later, quotes)
               call == calculate_current_index_value(initialized.self, quotes)
           IN  initialized.res = "Ok"
                   => call.res = "Ok" /\ call.ret = INDEX_BASE_VALUE

\* C24, amended: calculate_current_index_value follows the formula above,
\* and right after a successful initialize_base_portfolio_value, nothing
\* else having changed, it returns exactly index_base_value when
\* base_portfolio_value * index_base_value is in range and an error when it
\* is not.
C24_IndexValueFormulaInRange ==
    \A quotes \in ValuationQuotes :
        /\ C24_Formula(quotes)
        /\ LET initialized == initialize_base_portfolio_value(Portfolio, Owner, Later, quotes)
               call == calculate_current_index_value(initialized.self, quotes)
           IN  initialized.res = "Ok"
                   => IF initialized.self.base_portfolio_value
                             > U128_MAX \div INDEX_BASE_VALUE
                      THEN call.res # "Ok"
                      ELSE call.res = "Ok" /\ call.ret = INDEX_BASE_VALUE

\* a tracked portfolio whose value has grown to three times its baseline,
\* and which a higher price takes out of the range of the multiplication
C24_Witness ==
    /\ index_tracking_enabled /\ base_portfolio_value # 0
    /\ \E quotes \in ValuationQuotes :
         LET call == calculate_current_index_value(Portfolio, quotes)
         IN  call.res = "Ok" /\ call.ret = 3 * INDEX_BASE_VALUE
    /\ \E quotes \in ValuationQuotes :
         /\ calculate_total_portfolio_value(Portfolio, quotes).res = "Ok"
         /\ calculate_current_index_value(Portfolio, quotes).res # "Ok"

(***************************************************************************)
(* Properties of the DEX.                                                  *)
(***************************************************************************)
\* <<q, r>> with a * b = q * c + r and 0 <= r < c, computed without forming
\* the product, for 0 <= a, 0 <= b and 0 < c
RECURSIVE MulDivMod(_, _, _)
MulDivMod(a, b, c) ==
    IF b = 0 THEN <<0, 0>>
    ELSE LET half == MulDivMod(a, b \div 2, c)
             q2 == (2 * half[1]) + ((2 * half[2]) \div c)
             r2 == (2 * half[2]) % c
         IN  IF b % 2 = 0 THEN <<q2, r2>>
             ELSE <<q2 + (a \div c) + ((r2 + (a % c)) \div c), (r2 + (a % c)) % c>>

\* floor(a * b / c)
MulDiv(a, b, c) == MulDivMod(a, b, c)[1]

\* the reserve of to in the pool a swap from from to to uses
ReserveOut(self, from, to) ==
    LET pool == pool_for(self, from, to)
    IN  IF pool.token_a = from THEN pool.reserve_b ELSE pool.reserve_a

ReserveIn(self, from, to) ==
    LET pool == pool_for(self, from, to)
    IN  IF pool.token_a = from THEN pool.reserve_a ELSE pool.reserve_b

SwapProbeAmounts == SwapAmounts \cup {1, 999, 1000}

\* C25: a successful swap(from, to, amount_in, [from, to]) on a pool with
\* reserves (reserve_in, reserve_out) returns
\* floor(reserve_out * amount_in / (reserve_in + amount_in)) and leaves the
\* reserves (reserve_in + amount_in, reserve_out - amount_out), whichever of
\* the pool's tokens is the input; on (1000, 1000) with amount_in 100 it
\* returns 90 and leaves (1100, 910).
C25_SwapFollowsConstantProduct ==
    \A pair \in PoolPairs, amount_in \in SwapProbeAmounts :
        LET from == pair[1]
            to == pair[2]
            call == swap(Dex, from, to, amount_in, <<from, to>>)
            reserve_in == ReserveIn(Dex, from, to)
            reserve_out == ReserveOut(Dex, from, to)
        IN  call.res = "Ok" =>
              /\ call.ret = MulDiv(reserve_out, amount_in, reserve_in + amount_in)
              /\ ReserveIn(call.self, from, to) = reserve_in + amount_in
              /\ ReserveOut(call.self, from, to) = reserve_out - call.ret
              /\ reserve_in = 1000 /\ reserve_out = 1000 /\ amount_in = 100
                  => /\ call.ret = 90
                     /\ ReserveIn(call.self, from, to) = 1100
                     /\ ReserveOut(call.self, from, to) = 910

(***************************************************************************)
(* Properties of the Oracle.                                               *)
(***************************************************************************)
\* the tokens asked for: one that is fed and one that never is
OracleProbeTokens == OracleTokens \cup {"usdc"}

\* C26: get_price, get_market_cap and get_market_volume return None for a
\* token without stored data and for a token whose stored data is stale
\* (now - timestamp > staleness_threshold * 1000); they return Some only
\* where is_price_stale(token) is false.
C26_ReadsHideStaleData ==
    \A token \in OracleProbeTokens :
        is_price_stale(Oracle, now, token)
            => /\ get_price(Oracle, token) = <<>>
               /\ get_market_cap(Oracle, token) = <<>>
               /\ get_market_volume(Oracle, token) = <<>>


(***************************************************************************)
(* Properties of the Registry's tier calculation.                          *)
(***************************************************************************)
\* what the DOT/USD oracle may answer: nothing, and prices of 0, 1, 5, 10
\* and 11 plancks-scaled units
DotPrices == {<<>>, <<0>>, <<1>>, <<5>>, <<ONE_DOT_IN_PLANCKS>>, <<ONE_DOT_IN_PLANCKS + 1>>}

\* thresholds an owner may submit: the defaults, a set whose upper tiers
\* saturate at the highest rate, and a set that is out of order
SubmittedThresholds ==
    {TierThresholds_default,
     TierThresholds(50, 5, 250, 25, 300000000, 50, 400000000, 200),
     TierThresholds(250, 5, 50, 25, 500, 50, 2000, 200)}

ProbeMarketCaps == {0, 99, 100, 500, 501, 2500, 20000, U128_MAX - 1, U128_MAX}
ProbeVolumes == {0, 9, 10, 11, 50, 250, 2000}

RateUsed(dot_price) ==
    IF dot_price = <<>> \/ dot_price[1] = 0
    THEN FALLBACK_USD_TO_PLANCKS_RATE
    ELSE ONE_DOT_IN_PLANCKS \div dot_price[1]

CapUsd(th) ==
    <<th.tier1_market_cap_usd, th.tier2_market_cap_usd,
      th.tier3_market_cap_usd, th.tier4_market_cap_usd>>

VolumeUsd(th) ==
    <<th.tier1_volume_usd, th.tier2_volume_usd,
      th.tier3_volume_usd, th.tier4_volume_usd>>

TiersMet(th, rate, market_cap, volume) ==
    {i \in 1..4 : /\ market_cap >= saturating_mul_rate(CapUsd(th)[i], rate)
                  /\ volume >= saturating_mul_rate(VolumeUsd(th)[i], rate)}

HighestQualifying(th, rate, market_cap, volume) ==
    LET q == TiersMet(th, rate, market_cap, volume)
    IN  IF q = {} THEN "None"
        ELSE TierList[1 + CHOOSE i \in q : \A j \in q : j <= i]

TierIsHighestQualifying ==
    \A submitted \in SubmittedThresholds, dot_price \in DotPrices,
       market_cap \in ProbeMarketCaps, volume \in ProbeVolumes :
       LET th == set_tier_thresholds(Owner, submitted).tier_thresholds
       IN  calculate_tier_from_values(th, dot_price, market_cap, volume)
             = HighestQualifying(th, RateUsed(dot_price), market_cap, volume)

\* C27: with the thresholds the Registry holds and whatever the DOT/USD
\* oracle answers, calculate_tier_from_values returns the highest of Tier4
\* to Tier1 whose two thresholds, taken times the rate with saturating
\* products, are both met or exceeded, and None when no tier qualifies; the
\* rate is the fallback when no live rate is available, and a token that is
\* registered with market data is stored with exactly that tier.
C27_HighestQualifyingTier ==
    /\ TierIsHighestQualifying
    /\ \A caller \in Accounts, token_contract \in TokenContracts,
          oracle_contract \in OracleContracts, md \in MarketData :
          LET call == add_token(Registry, caller, now, token_contract, oracle_contract, md)
          IN  (call.res = "Ok" /\ md.ok) =>
                call.self.tokens[Registry.next_token_id].tier
                  = HighestQualifying(tier_thresholds, FALLBACK_USD_TO_PLANCKS_RATE,
                                      md.cap, md.vol)

\* a token was registered with market data that exactly meet the Tier2
\* thresholds at the fallback rate and is held at Tier2, while thresholds
\* whose products saturate are only met by the largest market cap
C27_Witness ==
    /\ \E id \in DOMAIN tokens : tokens[id].tier = "Tier2"
    /\ calculate_tier_from_values(tier_thresholds, dot_usd_oracle,
                                  tier2_market_cap_usd * FALLBACK_USD_TO_PLANCKS_RATE,
                                  tier2_volume_usd * FALLBACK_USD_TO_PLANCKS_RATE) = "Tier2"
    /\ LET th == set_tier_thresholds(Owner,
                    TierThresholds(50, 5, 250, 25, 300000000, 50, 400000000, 200))
       IN  /\ th.res = "Ok"
           /\ calculate_tier_from_values(th.tier_thresholds, <<1>>, U128_MAX, 2000) = "Tier4"
           /\ calculate_tier_from_values(th.tier_thresholds, <<1>>, U128_MAX - 1, 2000) = "Tier2"


(***************************************************************************)
(* Properties of a recomputation that finds the applied tier.              *)
(***************************************************************************)
TierState(self, token_id) ==
    <<self.tokens[token_id].tier,
      self.tokens[token_id].pending_tier_change,
      self.tokens[token_id].tier_change_timestamp>>

\* the call succeeded and left the tier state of the token and the cached
\* counts as they are in the current state
TierStateKept(call, token_id) ==
    call.res = "Ok" =>
        /\ token_id \in DOMAIN call.self.tokens
        /\ TierState(call.self, token_id) = TierState(Registry, token_id)
        /\ call.self.tier_distribution = tier_distribution

\* the first block time at which the pending change of the token is due
DueTime(token_id) ==
    LET due == tokens[token_id].tier_change_timestamp + grace_period_ms
    IN  IF due > now THEN due ELSE now

\* a change pending in the current state is applied by process_grace_periods
\* on the storage the call left, once the grace period has elapsed
PendingStillApplied(call, token_id) ==
    (/\ call.res = "Ok"
     /\ tokens[token_id].pending_tier_change # Nil
     /\ tokens[token_id].tier_change_timestamp # NoTime) =>
        \A updater \in Accounts :
            LET processed == process_grace_periods(call.self, updater, DueTime(token_id))
            IN  processed.res = "Ok" =>
                  /\ processed.self.tokens[token_id].tier
                        = tokens[token_id].pending_tier_change
                  /\ processed.self.tokens[token_id].pending_tier_change = Nil

\* the tier update_token works with: the applied tier when the oracle fails
RecomputedTier(token_id, md) ==
    IF calculate_token_tier_internal(md) = Nil THEN tokens[token_id].tier
    ELSE calculate_token_tier_internal(md)

\* C28: when update_token, update_token_tier or refresh_all_tiers recomputes
\* for a token the tier that is already applied, the token's applied tier,
\* pending change and timestamp and the cached tier counts are unchanged, and
\* a change that was pending is still applied by process_grace_periods once
\* its grace period has elapsed.
C28_EqualTierIsNoOp ==
    \A token_id \in DOMAIN tokens, caller \in Accounts :
        /\ \A md \in MarketData, u \in Updates :
              RecomputedTier(token_id, md) = tokens[token_id].tier =>
                LET call == update_token(Registry, caller, now, token_id, u[1], u[2], md)
                IN  TierStateKept(call, token_id) /\ PendingStillApplied(call, token_id)
        /\ \A md \in MarketData :
              calculate_token_tier_internal(md) = tokens[token_id].tier =>
                LET call == update_token_tier(Registry, caller, now, token_id, md)
                IN  TierStateKept(call, token_id) /\ PendingStillApplied(call, token_id)
        /\ \A mdf \in [1..get_token_count(Registry) -> MarketData] :
              calculate_token_tier_internal(mdf[token_id]) = tokens[token_id].tier =>
                LET call == refresh_all_tiers(Registry, caller, now, mdf)
                IN  TierStateKept(call, token_id) /\ PendingStillApplied(call, token_id)

\* a token with a pending change is recomputed at its applied tier by each of
\* the three messages, and the change is then applied when due
C28_Witness ==
    \E token_id \in DOMAIN tokens, md \in MarketData, u \in Updates,
       updater \in Accounts, manager \in Accounts :
        /\ tokens[token_id].pending_tier_change # Nil
        /\ tokens[token_id].tier_change_timestamp # NoTime
        /\ calculate_token_tier_internal(md) = tokens[token_id].tier
        /\ update_token(Registry, updater, now, token_id, u[1], u[2], md).res = "Ok"
        /\ update_token_tier(Registry, manager, now, token_id, md).res = "Ok"
        /\ refresh_all_tiers(Registry, manager, now,
                             [i \in 1..get_token_count(Registry) |-> md]).res = "Ok"
        /\ LET call == update_token_tier(Registry, manager, now, token_id, md)
               processed == process_grace_periods(call.self, updater, DueTime(token_id))
           IN  /\ processed.res = "Ok"
               /\ processed.self.tokens[token_id].tier = tokens[token_id].pending_tier_change


(***************************************************************************)
(* Properties of the cached index value.                                   *)
(***************************************************************************)
\* the Registry answers for every token held in the storage after
PricingAvailable(after, quotes) ==
    \A token_id \in DOMAIN after.holdings :
        call_registry_get_token_data(after, quotes, token_id) # NoQuote

\* after a successful call with the index tracked and prices available, the
\* cached index value is the one calculate_current_index_value returns
CacheIsCurrent(call, quotes) ==
    (/\ call.res = "Ok"
     /\ call.self.index_tracking_enabled
     /\ PricingAvailable(call.self, quotes)
     /\ calculate_current_index_value(call.self, quotes).res = "Ok") =>
        call.self.current_index_value
            = calculate_current_index_value(call.self, quotes).ret

SingleMutationsRecompute ==
    \A caller \in Accounts, quotes \in Quotes, token_id \in HeldTokenIds,
       amount \in Amounts, weight \in TargetWeights :
        /\ CacheIsCurrent(add_token_holding(Portfolio, caller, now, quotes,
                                            token_id, amount, weight), quotes)
        /\ CacheIsCurrent(update_token_holding(Portfolio, caller, now, quotes,
                                               token_id, amount, weight), quotes)
        /\ CacheIsCurrent(remove_token_holding(Portfolio, caller, now, quotes,
                                               token_id), quotes)

BatchMutationsRecompute ==
    \A caller \in Accounts, quotes \in Quotes :
        /\ \A holdings_data \in HoldingsData :
              CacheIsCurrent(add_multiple_holdings(Portfolio, caller, now,
                                                   holdings_data), quotes)
        /\ \A updates \in AmountUpdates :
              CacheIsCurrent(update_multiple_amounts(Portfolio, caller, now,
                                                     updates), quotes)

\* C29: with index tracking enabled and the Registry's prices available,
\* after every successful add_token_holding, update_token_holding,
\* remove_token_holding, add_multiple_holdings and update_multiple_amounts
\* the cached current_index_value equals what calculate_current_index_value
\* returns in the resulting state.
C29_CachedIndexFollowsMutations ==
    SingleMutationsRecompute /\ BatchMutationsRecompute


(***************************************************************************)
(* Properties of the Portfolio's failing operations.                       *)
(***************************************************************************)
\* the cached index value and its timestamp in the storage after are the
\* ones of the current state
IndexCacheKept(after) ==
    /\ after.current_index_value = current_index_value
    /\ after.last_index_update = last_index_update

\* update_index_value fails in the storage and the failure is the one of the
\* performance computation, not of the valuation
PerformanceFails(self, caller, t, quotes) ==
    /\ update_index_value(self, caller, t, quotes).res # "Ok"
    /\ calculate_current_index_value(self, quotes).res = "Ok"

\* the storage update_token_holding hands to trigger_index_update
BeforeTrigger(updated) ==
    [updated.self EXCEPT !.current_index_value = current_index_value,
                         !.last_index_update = last_index_update]

\* C30: a Portfolio operation that returns an error leaves the state
\* unchanged.  update_index_value and refresh_index_value, called as messages
\* or started by a holdings mutation, leave current_index_value and
\* last_index_update as before when the performance computation fails, and a
\* set_index_tracking(true) whose baseline initialisation fails leaves
\* index_tracking_enabled as before.  A message that returns an error is
\* rolled back as a whole; the update started by a mutation is not.
C30_FailedOperationKeepsState ==
    \A caller \in Accounts, quotes \in ValuationQuotes :
        /\ LET call == update_index_value(Portfolio, caller, Later, quotes)
           IN  call.res # "Ok" => IndexCacheKept(committed(Portfolio, call))
        /\ LET call == refresh_index_value(Portfolio, caller, Later, quotes)
           IN  call.res # "Ok" => IndexCacheKept(committed(Portfolio, call))
        /\ LET call == set_index_tracking(Portfolio, caller, Later, quotes, TRUE)
           IN  call.res # "Ok" =>
                 committed(Portfolio, call).index_tracking_enabled = index_tracking_enabled
        /\ \A token_id \in DOMAIN holdings, amount \in Amounts :
              LET updated == update_token_holding(Portfolio, caller, Later, quotes, token_id,
                                 amount, holdings[token_id].target_weight_bp)
              IN  (/\ updated.res = "Ok"
                   /\ updated.self.index_tracking_enabled
                   /\ PerformanceFails(BeforeTrigger(updated), caller, Later, quotes))
                      => IndexCacheKept(updated.self)


(***************************************************************************)
(* Properties of the Staking contract's failing payouts.                   *)
(***************************************************************************)
\* the outgoing transfers of a message, the first or the second failing
PushFailures == {<<FALSE, TRUE>>, <<TRUE, FALSE>>, <<FALSE, FALSE>>}

\* C31: a claim_unstaked or claim_rewards whose outgoing transfer fails
\* returns the transfer's error and leaves the Staking state as before: no
\* request becomes claimed, last_claim and total_collected_fees stay, and the
\* same call with the transfers succeeding pays what it would have paid.
C31_FailedPayoutLeavesState ==
    \A caller \in StakingCallers, t \in StakingProbeTimes, push \in PushFailures :
        LET env == Env("Tier4", TRUE, push)
            unstaked == claim_unstaked(Staking, caller, t, env)
            rewarded == claim_rewards(Staking, caller, t, env)
            rewards == IF caller \in DOMAIN stakes
                       THEN calculate_rewards_with_fee(stakes[caller], t)
                       ELSE [net_reward |-> 0, fee_amount |-> 0]
        IN  /\ (~paused /\ Matured(requests_of(Staking, caller), t) # {} /\ ~push[1]) =>
                  /\ unstaked.res = "TransferFailed"
                  /\ unstaked.ret = <<>>
                  /\ committed(Staking, unstaked) = Staking
                  /\ claim_unstaked(committed(Staking, unstaked), caller, t, Fair("Tier4"))
                        = claim_unstaked(Staking, caller, t, Fair("Tier4"))
                  /\ claim_unstaked(committed(Staking, unstaked), caller, t,
                                    Fair("Tier4")).res = "Ok"
            /\ (/\ ~paused /\ rewards.net_reward > 0
                 /\ (~push[1] \/ (rewards.fee_amount > 0 /\ ~push[2]))) =>
                  /\ rewarded.res = "TransferFailed"
                  /\ rewarded.ret = <<>>
                  /\ committed(Staking, rewarded) = Staking
                  /\ claim_rewards(committed(Staking, rewarded), caller, t,
                                   Fair("Tier4")).res = "Ok"
                  /\ claim_rewards(committed(Staking, rewarded), caller, t, Fair("Tier4")).ret
                        = <<Transfer(StakingAccount, caller, rewards.net_reward)>>
                              \o C19_FeeTransfer(rewards.fee_amount)

\* the staker has a request that is due and a reward with a fee, and each of
\* the two claims fails on its transfer after it has written
C31_Witness ==
    /\ ~paused
    /\ \E caller \in DOMAIN stakes :
         LET unstaked == claim_unstaked(Staking, caller, now, Env("Tier4", TRUE, <<FALSE, TRUE>>))
             rewarded == claim_rewards(Staking, caller, now, Env("Tier4", TRUE, <<TRUE, FALSE>>))
         IN  /\ Matured(requests_of(Staking, caller), now) # {}
             /\ unstaked.res = "TransferFailed"
             /\ unstaked.self.unstaking_requests # unstaking_requests
             /\ calculate_rewards_with_fee(stakes[caller], now).fee_amount > 0
             /\ rewarded.res = "TransferFailed"
             /\ rewarded.self.total_collected_fees > total_collected_fees


(***************************************************************************)
(* Properties of the DEX's swap conditions.                                *)
(***************************************************************************)
\* amounts tried: none, small ones, a whole reserve and more than a reserve
SwapConditionAmounts == SwapProbeAmounts \cup {1001, 2000}

PoolKnown(from, to) ==
    <<from, to>> \in DOMAIN pools \/ <<to, from>> \in DOMAIN pools

\* C32: swap(from, to, amount_in, path) succeeds for every amount_in when
\* path is exactly [from, to], a pool exists for the pair in either order
\* and both of its reserves are nonzero; it fails when the path is
\* malformed, the pool is unknown or a reserve is 0; and a failing swap
\* leaves the pools as they were.
C32_SwapSucceedsOnValidRoute ==
    \A from \in DexTokens, to \in DexTokens, amount_in \in SwapConditionAmounts,
       path \in SwapPaths :
        LET call == swap(Dex, from, to, amount_in, path)
            routed == path = <<from, to>>
            funded == /\ PoolKnown(from, to)
                      /\ ReserveIn(Dex, from, to) # 0
                      /\ ReserveOut(Dex, from, to) # 0
        IN  /\ (routed /\ funded) => call.res = "Ok"
            /\ ~(routed /\ funded) => call.res # "Ok"
            /\ call.res # "Ok" =>
                  /\ call.self.pools = pools
                  /\ committed(Dex, call).pools = pools


(***************************************************************************)
(* Properties of the queue of unstaking requests once it is paid out.      *)
(***************************************************************************)
\* every request the account ever queued has been claimed
AllClaimed(requests) == \A i \in 1..Len(requests) : requests[i].claimed

\* C33: the cap of 10 counts outstanding requests: when every queued request
\* of an account has been claimed, a request_unstake of a nonzero amount
\* that the account has staked succeeds while the contract is not paused,
\* however many requests the account made before.
C33_CapCountsOutstanding ==
    \A caller \in DOMAIN stakes, amount \in QueueUnstakeAmounts \cup {1} :
        (/\ ~paused
         /\ stakes[caller].amount >= amount
         /\ AllClaimed(requests_of(Staking, caller)))
            => request_unstake(Staking, caller, now, amount).res = "Ok"


(***************************************************************************)
(* Properties of the Staking contract's total.                             *)
(***************************************************************************)
\* C34: total_staked equals the sum of the amounts of all stored stakes,
\* after any sequence of stake, request_unstake, claim_unstaked and
\* claim_rewards.
C34_TotalStakedIsSumOfStakes ==
    total_staked
        = SumOver([account \in DOMAIN stakes |-> stakes[account].amount], DOMAIN stakes)


(***************************************************************************)
(* Properties of the Portfolio's list of held ids.                         *)
(***************************************************************************)
\* C35: held_token_ids has no duplicates and holds exactly the ids of the
\* holdings mapping, total_tokens_held is its length and does not exceed
\* max_tokens, in every state the Portfolio's messages lead to.
C35_HeldIdsMatchHoldings ==
    /\ \A i, j \in 1..Len(held_token_ids) :
          held_token_ids[i] = held_token_ids[j] => i = j
    /\ {held_token_ids[i] : i \in 1..Len(held_token_ids)} = DOMAIN holdings
    /\ total_tokens_held = Len(held_token_ids)
    /\ total_tokens_held <= max_tokens


(***************************************************************************)
(* Properties of the Registry's pending tier changes.                      *)
(***************************************************************************)
\* C36: a token with a pending tier change has its tier_change_timestamp set
\* and the pending tier differs from the applied one, in every state the
\* Registry's messages lead to.
C36_PendingIsStampedAndDiffers ==
    \A token_id \in DOMAIN tokens :
        tokens[token_id].pending_tier_change # Nil =>
            /\ tokens[token_id].tier_change_timestamp # NoTime
            /\ tokens[token_id].pending_tier_change # tokens[token_id].tier

\* a token whose tier was overridden or applied has a new change parked
C36_Witness ==
    \E token_id \in DOMAIN tokens :
        /\ tokens[token_id].tier = "Tier2"
        /\ tokens[token_id].pending_tier_change = "Tier1"
        /\ tokens[token_id].tier_change_timestamp = now
        /\ now > 0


\* the storage after the call keeps the pending change of the token and the
\* time it was parked at, and process_grace_periods applies the change at
\* the first block time at or after that time plus the grace period
GraceStartKept(call, token_id, t) ==
    call.res = "Ok" =>
        /\ call.self.tokens[token_id].pending_tier_change
              = tokens[token_id].pending_tier_change
        /\ call.self.tokens[token_id].tier_change_timestamp
              = tokens[token_id].tier_change_timestamp
        /\ \A updater \in Accounts :
              LET due == tokens[token_id].tier_change_timestamp + grace_period_ms
                  processed == process_grace_periods(call.self, updater,
                                                     IF due > t THEN due ELSE t)
              IN  processed.res = "Ok" =>
                    processed.self.tokens[token_id].tier
                        = tokens[token_id].pending_tier_change

\* C37: while a change is pending for a token, an update_token,
\* update_token_tier or refresh_all_tiers that recomputes the pending tier
\* leaves tier_change_timestamp as it is, so that the change is applied by
\* the first process_grace_periods made at or after the time of the first
\* detection plus the grace period.
C37_PendingKeepsGraceStart ==
    \A token_id \in DOMAIN tokens, caller \in Accounts, t \in {now, Later} :
        (/\ tokens[token_id].pending_tier_change # Nil
         /\ tokens[token_id].tier_change_timestamp # NoTime) =>
            /\ \A md \in MarketData, u \in Updates :
                  calculate_token_tier_internal(md) = tokens[token_id].pending_tier_change
                    => GraceStartKept(update_token(Registry, caller, t, token_id,
                                                   u[1], u[2], md), token_id, t)
            /\ \A md \in MarketData :
                  calculate_token_tier_internal(md) = tokens[token_id].pending_tier_change
                    => GraceStartKept(update_token_tier(Registry, caller, t, token_id, md),
                                      token_id, t)
            /\ \A mdf \in [1..get_token_count(Registry) -> MarketData] :
                  calculate_token_tier_internal(mdf[token_id])
                      = tokens[token_id].pending_tier_change
                    => GraceStartKept(refresh_all_tiers(Registry, caller, t, mdf),
                                      token_id, t)


\* grace periods the owner may set while a change is pending
NewGracePeriods == GracePeriods \cup {MIN_GRACE_PERIOD_MS, DEFAULT_GRACE_PERIOD_MS}

\* C38: process_grace_periods does not apply a pending change before the
\* grace_end_time announced when it was parked, the time of parking plus the
\* grace period in force then, also when set_grace_period is called while
\* the change is pending.  The change is parked by an update_token made now.
C38_NotBeforeAnnouncedEnd ==
    \A token_id \in DOMAIN tokens, caller \in Accounts, md \in MarketData,
       u \in Updates, period_ms \in NewGracePeriods :
        LET parked == update_token(Registry, caller, now, token_id, u[1], u[2], md)
            grace_end_time == now + grace_period_ms
            reset == set_grace_period(parked.self, Owner, period_ms)
            waiting == committed(parked.self, reset)
        IN  (/\ parked.res = "Ok"
             /\ calculate_token_tier_internal(md) # Nil
             /\ calculate_token_tier_internal(md) # tokens[token_id].tier) =>
                \A t \in {now, Later, grace_end_time - 1} :
                    LET processed == process_grace_periods(waiting, caller, t)
                    IN  (now <= t /\ t < grace_end_time /\ processed.res = "Ok") =>
                          processed.self.tokens[token_id].tier = tokens[token_id].tier


(***************************************************************************)
(* Properties of the principal paid out by the Staking contract.           *)
(***************************************************************************)
\* the sum of the amounts of the requests at the positions given
RequestedAt(requests, positions) ==
    SumOver([i \in 1..Len(requests) |-> requests[i].amount], positions)

\* a claim_unstaked that succeeds pays exactly the requests it turns from
\* unclaimed to claimed, a request_unstake that succeeds queues exactly its
\* amount as one unclaimed request, and a call that fails pays and queues
\* nothing
PaysNewlyClaimedOnly ==
    \A caller \in StakingCallers, t \in StakingProbeTimes :
        LET requests == requests_of(Staking, caller)
        IN  /\ \A env \in Envs :
                  LET call == claim_unstaked(Staking, caller, t, env)
                      after == requests_of(committed(Staking, call), caller)
                      newly == {i \in 1..Len(requests) :
                                   ~requests[i].claimed /\ after[i].claimed}
                  IN  /\ Len(after) = Len(requests)
                      /\ IF call.res = "Ok"
                         THEN call.ret = <<Transfer(StakingAccount, caller,
                                                    RequestedAt(requests, newly))>>
                         ELSE call.ret = <<>> /\ newly = {}
            /\ \A amount \in UnstakeAmounts :
                  LET call == request_unstake(Staking, caller, t, amount)
                      after == requests_of(committed(Staking, call), caller)
                  IN  /\ call.ret = <<>>
                      /\ IF call.res = "Ok"
                         THEN /\ Len(after) = Len(requests) + 1
                              /\ after[Len(after)].amount = amount
                              /\ ~after[Len(after)].claimed
                              /\ SubSeq(after, 1, Len(requests)) = requests
                         ELSE after = requests

\* the principal paid to each account, the sum of its claimed requests, is
\* at most the principal it asked for, the sum of all of its requests
PaidWithinRequested ==
    \A account \in DOMAIN unstaking_requests :
        LET requests == unstaking_requests[account]
        IN  RequestedAt(requests, {i \in 1..Len(requests) : requests[i].claimed})
                <= RequestedAt(requests, 1..Len(requests))

\* in a step every queue keeps its requests and their amounts in place, and
\* a request that was claimed stays claimed
QueueKept ==
    \A account \in DOMAIN unstaking_requests :
        /\ account \in DOMAIN unstaking_requests'
        /\ Len(unstaking_requests'[account]) >= Len(unstaking_requests[account])
        /\ \A i \in 1..Len(unstaking_requests[account]) :
              /\ unstaking_requests'[account][i].amount
                    = unstaking_requests[account][i].amount
              /\ unstaking_requests[account][i].claimed
                    => unstaking_requests'[account][i].claimed

\* C39: no unstaked principal is paid twice: a request's amount is part of
\* at most one successful claim_unstaked transfer, since a claim pays only
\* the requests it marks claimed and a claimed request never becomes
\* unclaimed again, and the principal paid to an account never exceeds what
\* the account passed to successful request_unstake calls.
C39_PrincipalPaidOnce ==
    /\ [](PaysNewlyClaimedOnly /\ PaidWithinRequested)
    /\ [][QueueKept]_vars

\* one request of the staker is paid and another one is due, so that a
\* claim made now pays the second one only
C39_Witness ==
    \E caller \in DOMAIN unstaking_requests :
        \E i, j \in 1..Len(unstaking_requests[caller]) :
            /\ unstaking_requests[caller][i].claimed
            /\ ~unstaking_requests[caller][j].claimed
            /\ unstaking_requests[caller][j].available_at <= now
            /\ claim_unstaked(Staking, caller, now, Fair("Tier4")).ret
                  = <<Transfer(StakingAccount, caller,
                               unstaking_requests[caller][j].amount)>>


(***************************************************************************)
(* Properties of the product of a pool's reserves.                         *)
(***************************************************************************)
\* a / c <= d / b for 0 <= a, 0 <= d, 0 < c and 0 < b, by comparing the
\* continued fractions of the two quotients
RECURSIVE FractionAtMost(_, _, _, _)
FractionAtMost(a, c, d, b) ==
    IF a \div c # d \div b THEN a \div c < d \div b
    ELSE IF a % c = 0 THEN TRUE
    ELSE IF d % b = 0 THEN FALSE
    ELSE FractionAtMost(b, d % b, c, a % c)

\* a * b <= c * d for values from 0 to U128_MAX, without forming a product
ProductAtMost(a, b, c, d) ==
    IF a = 0 \/ b = 0 THEN TRUE
    ELSE IF c = 0 \/ d = 0 THEN FALSE
    ELSE FractionAtMost(a, c, d, b)

\* reserves the owner may give a pool: those of PoolReserves and reserves at
\* the top of the u128 range
OwnerReserves ==
    PoolReserves \cup {<<U128_MAX, 1>>, <<U128_MAX - 1, 2>>, <<U128_MAX, U128_MAX>>}

\* amounts tried: those of SwapProbeAmounts and amounts at the top of the range
ProductProbeAmounts == SwapProbeAmounts \cup {2, U128_MAX - 1, U128_MAX}

\* the DEX as it is and as it is after one more set_pool by the owner
DexAfterSetPool ==
    {Dex} \cup {set_pool(Dex, Owner, pair[1], pair[2], reserves[1], reserves[2]).self :
                   pair \in PoolPairs, reserves \in OwnerReserves}

\* C40: every successful swap leaves the product reserve_a * reserve_b of
\* the pool no smaller than before the swap, returns an amount_out strictly
\* smaller than the output reserve and leaves both reserves strictly
\* positive, so that no sequence of swaps drains a reserve to 0.
C40_SwapKeepsProductAndReserves ==
    \A dex \in DexAfterSetPool, pair \in PoolPairs, amount_in \in ProductProbeAmounts :
        LET from == pair[1]
            to == pair[2]
            call == swap(dex, from, to, amount_in, <<from, to>>)
        IN  call.res = "Ok" =>
              /\ ProductAtMost(ReserveIn(dex, from, to), ReserveOut(dex, from, to),
                               ReserveIn(call.self, from, to),
                               ReserveOut(call.self, from, to))
              /\ call.ret < ReserveOut(dex, from, to)
              /\ ReserveIn(call.self, from, to) > 0
              /\ ReserveOut(call.self, from, to) > 0

====
